---- MODULE Spec2Model ----
(***************************************************************************)
(* Ski race manager backend: the roster ordering engine (routes/roster.ts),*)
(* the race lock flag (routes/races.ts) and the start-list metadata        *)
(* (routes/startlist.ts), over DynamoDB-like tables.                       *)
(*                                                                         *)
(* A table is a set of items; an item's key is unique in its table.  A     *)
(* request handler is a pure operator from the tables it reads and the     *)
(* request to a result [status, branch, rosters, body]; an action applies  *)
(* one whole handler (requests run to completion, one at a time).          *)
(***************************************************************************)
EXTENDS Integers, Sequences, FiniteSets, TLC

VARIABLES
    races,       \* RACES table: set of [raceId, locked]
    racers,      \* RACERS table: set of [racerId, teamId, gender, class]
    rosters,     \* ROSTERS table: set of [raceId, teamId, gender, class, racerId, startOrder]
    startlists,  \* STARTLISTS table: set of items keyed (raceId, bib)
    results,     \* RESULTS table: set of items keyed (raceId, bib)
    last,        \* the last request served: [op, status, branch], and for a
                 \* Generate the entries and the draw order it answered with
    drawn,       \* history: per race, the team draw order its last Generate recorded
    calls,       \* the requests in progress, per actor: what was read and the store
                 \* writes still to be made (none while requests run one at a time)
    steps        \* number of requests still to be served in this behaviour

vars == <<races, racers, rosters, startlists, results, last, drawn, calls, steps>>

-----------------------------------------------------------------------------
\* Bounds of the model

\* requests served in one behaviour of Spec (empty rosters at the start)
MaxOps == 4
\* requests served in one behaviour of SpecFull (a prepared roster at the start)
MaxFullOps == 5
\* largest bib number a client puts in an excluded-bib list
MaxBib == 2
\* requests served in one behaviour of SpecCaps (buckets near their caps at the start)
MaxCapOps == 3
\* requests served in one behaviour of SpecOver (a bucket over its cap at the start)
MaxOverOps == 2
\* requests served in one behaviour of SpecStart (start lists of filled rosters)
MaxStartOps == 3

-----------------------------------------------------------------------------
\* Types of routes/roster.ts

Genders == {"Female", "Male"}
RacerClass == {"Varsity", "Varsity Alternate", "Jr Varsity", "Provisional", "DNS"}
\* the long DNS label the UI may send, and None for an absent desiredClass
InputRacerClass == RacerClass \cup {"DNS - Did Not Start"}
None == "none"
\* a missing startOrder (DNS entries)
Null == -1

CAP == [Varsity |-> 5, VarsityAlternate |-> 1]

\* CLASS_ORDER.indexOf(cls)
CLASS_ORDER(cls) ==
    CASE cls = "Varsity" -> 0
      [] cls = "Varsity Alternate" -> 1
      [] cls = "Jr Varsity" -> 2
      [] cls = "Provisional" -> 3
      [] OTHER -> 4

\* a.gender.localeCompare(b.gender): "Female" sorts before "Male"
GenderRank(g) == IF g = "Female" THEN 0 ELSE 1

\* Byte order of the class inside the sort key "<gender>#<class>#<raceId>#<racerId>":
\* "DNS" < "Jr Varsity" < "Provisional" < "Varsity Alternate#" < "Varsity#"
\* (a space sorts before '#').
SkClassRank(cls) ==
    CASE cls = "DNS" -> 0
      [] cls = "Jr Varsity" -> 1
      [] cls = "Provisional" -> 2
      [] cls = "Varsity Alternate" -> 3
      [] OTHER -> 4

\* startOrder ?? 0
SO(e) == IF e.startOrder = Null THEN 0 ELSE e.startOrder

-----------------------------------------------------------------------------
\* The ROSTERS table.  Primary key: pk = ROSTER#raceId#teamId,
\* sk = gender#class#raceId#racerId.

Key(i) == <<i.raceId, i.teamId, i.gender, i.class, i.racerId>>

Item(raceId, teamId, gender, cls, racerId, startOrder) ==
    [raceId |-> raceId, teamId |-> teamId, gender |-> gender, class |-> cls,
     racerId |-> racerId, startOrder |-> startOrder]

\* PutCommand without a condition: replaces the item with the same key
Put(tbl, item) == {i \in tbl : Key(i) # Key(item)} \cup {item}

\* DeleteCommand
Delete(tbl, key) == {i \in tbl : Key(i) # key}

\* Query order of one partition: ascending sort key
SkLess(a, b) ==
    \/ GenderRank(a.gender) < GenderRank(b.gender)
    \/ /\ a.gender = b.gender
       /\ \/ SkClassRank(a.class) < SkClassRank(b.class)
          \/ a.class = b.class /\ a.racerId < b.racerId

\* getRoster(raceId, teamId): the items of the partition
getRoster(tbl, raceId, teamId) ==
    {i \in tbl : i.raceId = raceId /\ i.teamId = teamId}

\* Array.find over a query result: the first match in sort-key order
First(S) == CHOOSE x \in S : \A y \in S \ {x} : SkLess(x, y)

\* countInClass(raceId, teamId, gender, cls)
countInClass(tbl, raceId, teamId, gender, cls) ==
    Cardinality({i \in getRoster(tbl, raceId, teamId) : i.gender = gender /\ i.class = cls})

\* a lock test that never finds the flag
isRaceLockedNever(racesTbl, raceId) == FALSE

\* isRaceLocked(raceId): Boolean(res.Item?.locked)
isRaceLocked(racesTbl, raceId) ==
    \E r \in racesTbl : r.raceId = raceId /\ r.locked

\* Math.max(...bucket.map(b => b.startOrder ?? 0)), 0 for an empty bucket
MaxOrder(bucket) ==
    IF bucket = {} THEN 0
    ELSE LET m == CHOOSE x \in bucket : \A y \in bucket : SO(y) <= SO(x) IN SO(m)

\* Array.sort by (startOrder ?? 0), stable over the query order
ByStartOrder(a, b) == SO(a) < SO(b) \/ (SO(a) = SO(b) /\ SkLess(a, b))

RECURSIVE SortByStartOrder(_)
SortByStartOrder(S) ==
    IF S = {} THEN <<>>
    ELSE LET x == CHOOSE x \in S : \A y \in S \ {x} : ByStartOrder(x, y)
         IN <<x>> \o SortByStartOrder(S \ {x})

\* A handler's result
Result(status, branch, tbl, body) ==
    [status |-> status, branch |-> branch, rosters |-> tbl, body |-> body]

\* Decrement the startOrder of every entry of the bucket placed after `entry`
\* (delete + put of each shifted item under its own key).
RECURSIVE ShiftAll(_, _)
ShiftAll(tbl, seq) ==
    IF seq = <<>> THEN tbl
    ELSE LET racer == Head(seq)
             moved == [racer EXCEPT !.startOrder = SO(racer) - 1]
         IN ShiftAll(Put(Delete(tbl, Key(racer)), moved), Tail(seq))

\* bucket.filter(r => (r.startOrder ?? 0) > (entry.startOrder ?? 0))
toShift(bucket, entry) == SelectSeq(bucket, LAMBDA r : SO(r) > SO(entry))

-----------------------------------------------------------------------------
\* POST .../add

\* normalizedDesired / normalizedNewClass
normalizeClass(c) == IF c = "DNS - Did Not Start" THEN "DNS" ELSE c

\* The class an added entry gets: a Provisional racer stays Provisional unless
\* DNS is asked for; any other racer gets desiredClass ?? rBaseClass.
resolveClass(rBaseClass, desiredClass) ==
    LET normalizedDesired == normalizeClass(desiredClass)
    IN IF rBaseClass = "Provisional"
       THEN (IF normalizedDesired = "DNS" THEN "DNS" ELSE "Provisional")
       ELSE (IF normalizedDesired = None THEN rBaseClass ELSE normalizedDesired)

\* a cap test that is off by one: the bucket is full only once it is over the cap
capReachedOffByOne(tbl, raceId, teamId, gender, cls) ==
    \/ cls = "Varsity"
       /\ countInClass(tbl, raceId, teamId, gender, "Varsity") > CAP.Varsity
    \/ cls = "Varsity Alternate"
       /\ countInClass(tbl, raceId, teamId, gender, "Varsity Alternate") > CAP.VarsityAlternate

\* "enforce caps": the class is capped and the (race, team, gender) bucket is full
capReached(tbl, raceId, teamId, gender, cls) ==
    \/ cls = "Varsity"
       /\ countInClass(tbl, raceId, teamId, gender, "Varsity") >= CAP.Varsity
    \/ cls = "Varsity Alternate"
       /\ countInClass(tbl, raceId, teamId, gender, "Varsity Alternate") >= CAP.VarsityAlternate

\* next startOrder (max+1 within gender+class), null for DNS
nextStartOrder(roster, gender, cls) ==
    IF cls = "DNS" THEN Null
    ELSE MaxOrder({e \in roster : e.gender = gender /\ e.class = cls}) + 1

\* a condition that also refuses a put into a taken (class, startOrder) slot
conditionFailsSameSlot(tbl, item) ==
    \E i \in tbl : /\ i.raceId = item.raceId /\ i.teamId = item.teamId
                   /\ i.gender = item.gender /\ i.class = item.class
                   /\ (i.racerId = item.racerId \/ i.startOrder = item.startOrder)

\* ConditionExpression "attribute_not_exists(pk) OR attribute_not_exists(sk)":
\* the put is refused when an item with the same pk and sk exists
conditionFails(tbl, item) == \E i \in tbl : Key(i) = Key(item)

rosterAdd(tbl, raceId, teamId, racerId, rGender, rBaseClass, desiredClass) ==
    LET roster == getRoster(tbl, raceId, teamId)
        cls == resolveClass(rBaseClass, desiredClass)
        item == Item(raceId, teamId, rGender, cls, racerId,
                     nextStartOrder(roster, rGender, cls))
    IN IF capReached(tbl, raceId, teamId, rGender, cls)
       THEN Result("CapacityExceeded", "add_cap", tbl, {})
       ELSE IF conditionFails(tbl, item)
       THEN Result("DuplicateEntry", "add_exists", tbl, {})
       ELSE Result("ok", "added", Put(tbl, item),
                   getRoster(Put(tbl, item), raceId, teamId))

-----------------------------------------------------------------------------
\* PATCH .../entry/{racerId}  and  DELETE .../entry/{racerId}

\* roster.find(r => r.racerId === racerId), as a set: empty or the first match
findEntry(roster, racerId) ==
    LET found == {r \in roster : r.racerId = racerId}
    IN IF found = {} THEN {} ELSE {First(found)}

\* a removal that leaves the gap open
removeNoCompact(tbl, roster, entry) == Delete(tbl, Key(entry))

\* delete the entry and close the gap it leaves in its bucket
removeAndCompact(tbl, roster, entry) ==
    LET bucket == IF entry.class = "DNS" THEN <<>>
                  ELSE SortByStartOrder({r \in roster :
                           r.gender = entry.gender /\ r.class = entry.class})
        deleted == Delete(tbl, Key(entry))
    IN IF entry.class # "DNS" THEN ShiftAll(deleted, toShift(bucket, entry))
       ELSE deleted

rosterReclassify(tbl, raceId, teamId, racerId, newClass) ==
    LET normalizedNewClass == normalizeClass(newClass)
        roster == getRoster(tbl, raceId, teamId)
        found == findEntry(roster, racerId)
    IN IF found = {} THEN Result("NotFound", "no_entry", tbl, {})
       ELSE LET entry == First(found)
            IN IF entry.class = normalizedNewClass
               THEN Result("ok", "unchanged", tbl, roster)
               ELSE IF /\ entry.class = "Provisional"
                       /\ normalizedNewClass # "Provisional"
                       /\ normalizedNewClass # "DNS"
               THEN Result("ProvisionalLocked", "provisional", tbl, {})
               ELSE IF capReached(tbl, raceId, teamId, entry.gender, normalizedNewClass)
               THEN Result("CapacityExceeded", "reclassify_cap", tbl, {})
               ELSE LET shifted == removeAndCompact(tbl, roster, entry)
                        item == Item(raceId, teamId, entry.gender, normalizedNewClass,
                                     racerId,
                                     nextStartOrder(roster, entry.gender, normalizedNewClass))
                        done == Put(shifted, item)
                    IN Result("ok", "reclassified", done, getRoster(done, raceId, teamId))

rosterRemove(tbl, raceId, teamId, racerId) ==
    LET roster == getRoster(tbl, raceId, teamId)
        found == findEntry(roster, racerId)
    IN IF found = {} THEN Result("ok", "absent", tbl, getRoster(tbl, raceId, teamId))
       ELSE LET done == removeAndCompact(tbl, roster, First(found))
            IN Result("ok", "removed", done, getRoster(done, raceId, teamId))

-----------------------------------------------------------------------------
\* POST .../move

\* x ?? 1 for a startOrder
OrOne(startOrder) == IF startOrder = Null THEN 1 ELSE startOrder

\* the entries of one (gender, class) bucket that carry a startOrder
ordered(roster, gender, cls) ==
    {r \in roster : r.gender = gender /\ r.class = cls /\ r.startOrder # Null}

\* roster.find(r => r.gender === entry.gender && r.class === "Varsity Alternate")
findAlternate(roster, gender) ==
    LET vas == {r \in roster : r.gender = gender /\ r.class = "Varsity Alternate"}
    IN IF vas = {} THEN {} ELSE {First(vas)}

\* the same racer re-keyed into another class with a startOrder
Rekey(e, cls, startOrder) ==
    Item(e.raceId, e.teamId, e.gender, cls, e.racerId, startOrder)

\* Varsity Alternate, up: to the last Varsity spot; a Varsity #5 is swapped down
moveAlternateUp(tbl, roster, entry) ==
    LET varsity == ordered(roster, entry.gender, "Varsity")
        fifths == {v \in varsity : SO(v) = CAP.Varsity}
        deleted == Delete(tbl, Key(entry))
    IN IF fifths # {}
       THEN LET varsityFifth == First(fifths)
                t2 == Delete(deleted, Key(varsityFifth))
                t3 == Put(t2, Rekey(entry, "Varsity", CAP.Varsity))
                t4 == Put(t3, Rekey(varsityFifth, "Varsity Alternate",
                                    OrOne(entry.startOrder)))
            IN Result("ok", "va_up_swap", t4, getRoster(t4, entry.raceId, entry.teamId))
       ELSE LET nextOrder == MaxOrder(varsity) + 1
                t2 == Put(deleted, Rekey(entry, "Varsity", nextOrder))
            IN Result("ok", "va_up_append", t2, getRoster(t2, entry.raceId, entry.teamId))

\* a move down that forgets to re-key the Jr Varsity #1 it meets
moveAlternateDownNoSwap(tbl, roster, entry) ==
    LET t2 == Put(Delete(tbl, Key(entry)), Rekey(entry, "Jr Varsity", 1))
    IN Result("ok", "va_down_alone", t2, getRoster(t2, entry.raceId, entry.teamId))

\* Varsity Alternate, down: swap with Jr Varsity #1, or become Jr Varsity #1
moveAlternateDown(tbl, roster, entry) ==
    LET jrVarsity == ordered(roster, entry.gender, "Jr Varsity")
        tops == {j \in jrVarsity : SO(j) = 1}
        deleted == Delete(tbl, Key(entry))
    IN IF tops = {}
       THEN LET t2 == Put(deleted, Rekey(entry, "Jr Varsity", 1))
            IN Result("ok", "va_down_alone", t2, getRoster(t2, entry.raceId, entry.teamId))
       ELSE LET topJv == First(tops)
                t2 == Delete(deleted, Key(topJv))
                t3 == Put(t2, Rekey(entry, "Jr Varsity", 1))
                t4 == Put(t3, Rekey(topJv, "Varsity Alternate", OrOne(entry.startOrder)))
            IN Result("ok", "va_down_swap", t4, getRoster(t4, entry.raceId, entry.teamId))

\* Jr Varsity #1, up: promote to Varsity Alternate (swapping if one exists)
moveJvTopUp(tbl, roster, entry) ==
    LET va == findAlternate(roster, entry.gender)
        jvBucket == SortByStartOrder(ordered(roster, entry.gender, "Jr Varsity"))
        deleted == Delete(tbl, Key(entry))
    IN IF va = {}
       THEN LET t2 == ShiftAll(deleted, toShift(jvBucket, entry))
                t3 == Put(t2, Rekey(entry, "Varsity Alternate", 1))
            IN Result("ok", "jv_up_promote", t3, getRoster(t3, entry.raceId, entry.teamId))
       ELSE LET v == First(va)
                t2 == Delete(deleted, Key(v))
                t3 == Put(t2, Rekey(entry, "Varsity Alternate", OrOne(v.startOrder)))
                t4 == Put(t3, Rekey(v, "Jr Varsity", OrOne(entry.startOrder)))
            IN Result("ok", "jv_up_swap", t4, getRoster(t4, entry.raceId, entry.teamId))

\* isLast: the entry holds the largest Varsity startOrder
isLastVarsity(roster, entry) ==
    LET varsityBucket == SortByStartOrder(ordered(roster, entry.gender, "Varsity"))
    IN /\ varsityBucket # <<>>
       /\ SO(entry) = SO(varsityBucket[Len(varsityBucket)])

\* a demotion that promotes the alternate at its own startOrder, not the mover's
moveLastVarsityDownWrongSlot(tbl, roster, entry) ==
    LET va == findAlternate(roster, entry.gender)
        deleted == Delete(tbl, Key(entry))
    IN IF va # {}
       THEN LET v == First(va)
                t2 == Delete(deleted, Key(v))
                t3 == Put(t2, Rekey(entry, "Varsity Alternate", OrOne(v.startOrder)))
                t4 == Put(t3, Rekey(v, "Varsity", OrOne(v.startOrder)))
            IN Result("ok", "v_down_swap", t4, getRoster(t4, entry.raceId, entry.teamId))
       ELSE LET t2 == Put(deleted, Rekey(entry, "Varsity Alternate", 1))
            IN Result("ok", "v_down_alone", t2, getRoster(t2, entry.raceId, entry.teamId))

\* last Varsity, down: into Varsity Alternate (swapping if one exists)
moveLastVarsityDown(tbl, roster, entry) ==
    LET va == findAlternate(roster, entry.gender)
        varsityBucket == SortByStartOrder(ordered(roster, entry.gender, "Varsity"))
        deleted == Delete(tbl, Key(entry))
    IN IF va # {}
       THEN LET v == First(va)
                t2 == Delete(deleted, Key(v))
                t3 == Put(t2, Rekey(entry, "Varsity Alternate", OrOne(v.startOrder)))
                t4 == Put(t3, Rekey(v, "Varsity",
                                    IF entry.startOrder # Null THEN entry.startOrder
                                    ELSE IF Len(varsityBucket) # 0 THEN Len(varsityBucket)
                                    ELSE 1))
            IN Result("ok", "v_down_swap", t4, getRoster(t4, entry.raceId, entry.teamId))
       ELSE LET t2 == Put(deleted, Rekey(entry, "Varsity Alternate", 1))
            IN Result("ok", "v_down_alone", t2, getRoster(t2, entry.raceId, entry.teamId))

\* bucket.findIndex(b => b.racerId === racerId), 1-based
IndexOf(bucket, racerId) ==
    CHOOSE i \in 1..Len(bucket) :
        /\ bucket[i].racerId = racerId
        /\ \A j \in 1..(i - 1) : bucket[j].racerId # racerId

\* a swap that rewrites the mover only: the neighbour keeps its startOrder
moveSwapHalf(tbl, roster, entry, direction) ==
    LET members == {r \in roster : r.gender = entry.gender /\ r.class = entry.class}
        bucket == SortByStartOrder(members)
        i == IndexOf(bucket, entry.racerId)
    IN IF \E r \in members : r.startOrder = Null
       THEN Result("StartOrderMissing", "swap_null", tbl, {})
       ELSE IF (direction = "up" /\ i = 1) \/ (direction = "down" /\ i = Len(bucket))
       THEN Result("ok", "swap_edge", tbl, roster)
       ELSE LET swapWith == bucket[IF direction = "up" THEN i - 1 ELSE i + 1]
                t3 == Put(tbl, [entry EXCEPT !.startOrder = swapWith.startOrder])
            IN Result("ok", "swapped", t3, getRoster(t3, entry.raceId, entry.teamId))

\* a swap that never writes the neighbour back
moveSwapDrop(tbl, roster, entry, direction) ==
    LET members == {r \in roster : r.gender = entry.gender /\ r.class = entry.class}
        bucket == SortByStartOrder(members)
        i == IndexOf(bucket, entry.racerId)
    IN IF \E r \in members : r.startOrder = Null
       THEN Result("StartOrderMissing", "swap_null", tbl, {})
       ELSE IF (direction = "up" /\ i = 1) \/ (direction = "down" /\ i = Len(bucket))
       THEN Result("ok", "swap_edge", tbl, roster)
       ELSE LET swapWith == bucket[IF direction = "up" THEN i - 1 ELSE i + 1]
                t1 == Delete(tbl, Key(entry))
                t2 == Delete(t1, Key(swapWith))
                t3 == Put(t2, [entry EXCEPT !.startOrder = swapWith.startOrder])
            IN Result("ok", "swapped", t3, getRoster(t3, entry.raceId, entry.teamId))

\* swap startOrder with the neighbour inside the bucket
moveSwap(tbl, roster, entry, direction) ==
    LET members == {r \in roster : r.gender = entry.gender /\ r.class = entry.class}
        bucket == SortByStartOrder(members)
        i == IndexOf(bucket, entry.racerId)
    IN IF \E r \in members : r.startOrder = Null
       THEN Result("StartOrderMissing", "swap_null", tbl, {})
       ELSE IF (direction = "up" /\ i = 1) \/ (direction = "down" /\ i = Len(bucket))
       THEN Result("ok", "swap_edge", tbl, roster)
       ELSE LET swapWith == bucket[IF direction = "up" THEN i - 1 ELSE i + 1]
                t1 == Delete(tbl, Key(entry))
                t2 == Delete(t1, Key(swapWith))
                t3 == Put(t2, [entry EXCEPT !.startOrder = swapWith.startOrder])
                t4 == Put(t3, [swapWith EXCEPT !.startOrder = entry.startOrder])
            IN Result("ok", "swapped", t4, getRoster(t4, entry.raceId, entry.teamId))

\* a move without the DNS test: a DNS entry falls through to the swap
rosterMoveNoDnsTest(tbl, raceId, teamId, racerId, direction) ==
    LET roster == getRoster(tbl, raceId, teamId)
        found == findEntry(roster, racerId)
    IN IF found = {} THEN Result("NotFound", "no_entry", tbl, {})
       ELSE LET entry == First(found)
            IN IF entry.class = "Varsity Alternate" /\ direction = "up"
               THEN moveAlternateUp(tbl, roster, entry)
               ELSE IF entry.class = "Varsity Alternate" /\ direction = "down"
               THEN moveAlternateDown(tbl, roster, entry)
               ELSE IF entry.class = "Jr Varsity" /\ direction = "up" /\ SO(entry) = 1
               THEN moveJvTopUp(tbl, roster, entry)
               ELSE IF /\ entry.class = "Varsity" /\ direction = "down"
                       /\ isLastVarsity(roster, entry)
               THEN moveLastVarsityDown(tbl, roster, entry)
               ELSE moveSwap(tbl, roster, entry, direction)

rosterMove(tbl, raceId, teamId, racerId, direction) ==
    LET roster == getRoster(tbl, raceId, teamId)
        found == findEntry(roster, racerId)
    IN IF found = {} THEN Result("NotFound", "no_entry", tbl, {})
       ELSE LET entry == First(found)
            IN IF entry.class = "DNS"
               THEN Result("InvalidState", "dns", tbl, {})
               ELSE IF entry.class = "Varsity Alternate" /\ direction = "up"
               THEN moveAlternateUp(tbl, roster, entry)
               ELSE IF entry.class = "Varsity Alternate" /\ direction = "down"
               THEN moveAlternateDown(tbl, roster, entry)
               ELSE IF entry.class = "Jr Varsity" /\ direction = "up" /\ SO(entry) = 1
               THEN moveJvTopUp(tbl, roster, entry)
               ELSE IF /\ entry.class = "Varsity" /\ direction = "down"
                       /\ isLastVarsity(roster, entry)
               THEN moveLastVarsityDown(tbl, roster, entry)
               ELSE moveSwap(tbl, roster, entry, direction)

-----------------------------------------------------------------------------
\* POST .../copy

\* the sort of the source roster: gender, then CLASS_ORDER, then startOrder ?? 0;
\* the sort is stable, so equal entries keep their query order
CopyLess(a, b) ==
    \/ GenderRank(a.gender) < GenderRank(b.gender)
    \/ /\ a.gender = b.gender
       /\ \/ CLASS_ORDER(a.class) < CLASS_ORDER(b.class)
          \/ /\ a.class = b.class
             /\ ByStartOrder(a, b)

RECURSIVE SortForCopy(_)
SortForCopy(S) ==
    IF S = {} THEN <<>>
    ELSE LET x == CHOOSE x \in S : \A y \in S \ {x} : CopyLess(x, y)
         IN <<x>> \o SortForCopy(S \ {x})

\* countInResult(gender, cls)
countInResult(result, gender, cls) ==
    Cardinality({r \in result : r.gender = gender /\ r.class = cls})

\* the loop over the ordered source entries; `result` collects what was written
RECURSIVE CopyLoop(_, _, _, _)
CopyLoop(tbl, result, seq, raceId) ==
    IF seq = <<>> THEN [rosters |-> tbl, result |-> result]
    ELSE LET entry == Head(seq)
             cls == entry.class
             skip == \/ cls = "DNS"
                     \/ cls = "Varsity"
                        /\ countInResult(result, entry.gender, "Varsity") >= CAP.Varsity
                     \/ cls = "Varsity Alternate"
                        /\ countInResult(result, entry.gender, "Varsity Alternate")
                              >= CAP.VarsityAlternate
             item == Item(raceId, entry.teamId, entry.gender, cls, entry.racerId,
                          nextStartOrder(result, entry.gender, cls))
         IN IF skip THEN CopyLoop(tbl, result, Tail(seq), raceId)
            ELSE CopyLoop(Put(tbl, item), result \cup {item}, Tail(seq), raceId)

\* a copy that writes over the destination without clearing it first
rosterCopyNoClear(tbl, raceId, teamId, fromRaceId) ==
    IF fromRaceId = None THEN Result("ValidationError", "no_source", tbl, {})
    ELSE LET source == getRoster(tbl, fromRaceId, teamId)
             done == CopyLoop(tbl, {}, SortForCopy(source), raceId)
         IN Result("ok", "copied", done.rosters, done.result)

rosterCopy(tbl, raceId, teamId, fromRaceId) ==
    IF fromRaceId = None THEN Result("ValidationError", "no_source", tbl, {})
    ELSE LET source == getRoster(tbl, fromRaceId, teamId)
             existingTarget == getRoster(tbl, raceId, teamId)
             cleared == {i \in tbl : \A t \in existingTarget : Key(i) # Key(t)}
             done == CopyLoop(cleared, {}, SortForCopy(source), raceId)
         IN Result("ok", "copied", done.rosters, done.result)

-----------------------------------------------------------------------------
\* rosterRouter: the lock check in front of every method but GET, then dispatch

rosterRouter(racesTbl, tbl, req) ==
    IF req.op # "get" /\ isRaceLocked(racesTbl, req.raceId)
    THEN Result("RaceLocked", "locked", tbl, {})
    ELSE CASE req.op = "get" ->
                Result("ok", "fetched", tbl, getRoster(tbl, req.raceId, req.teamId))
           [] req.op = "copy" ->
                rosterCopy(tbl, req.raceId, req.teamId, req.fromRaceId)
           [] req.op = "add" ->
                rosterAdd(tbl, req.raceId, req.teamId, req.racerId,
                          req.rGender, req.rBaseClass, req.desiredClass)
           [] req.op = "patch" ->
                rosterReclassify(tbl, req.raceId, req.teamId, req.racerId, req.newClass)
           [] req.op = "delete" ->
                rosterRemove(tbl, req.raceId, req.teamId, req.racerId)
           [] req.op = "move" ->
                rosterMove(tbl, req.raceId, req.teamId, req.racerId, req.direction)

\* the requests
AddReq(raceId, teamId, racerId, rGender, rBaseClass, desiredClass) ==
    [op |-> "add", raceId |-> raceId, teamId |-> teamId, racerId |-> racerId,
     rGender |-> rGender, rBaseClass |-> rBaseClass, desiredClass |-> desiredClass]
PatchReq(raceId, teamId, racerId, newClass) ==
    [op |-> "patch", raceId |-> raceId, teamId |-> teamId, racerId |-> racerId,
     newClass |-> newClass]
DeleteReq(raceId, teamId, racerId) ==
    [op |-> "delete", raceId |-> raceId, teamId |-> teamId, racerId |-> racerId]
MoveReq(raceId, teamId, racerId, direction) ==
    [op |-> "move", raceId |-> raceId, teamId |-> teamId, racerId |-> racerId,
     direction |-> direction]
CopyReq(raceId, teamId, fromRaceId) ==
    [op |-> "copy", raceId |-> raceId, teamId |-> teamId, fromRaceId |-> fromRaceId]
GetReq(raceId, teamId) ==
    [op |-> "get", raceId |-> raceId, teamId |-> teamId]

-----------------------------------------------------------------------------
\* routes/races.ts, PATCH /races/{raceId} with a locked flag

racesPatch(racesTbl, raceId, locked) ==
    IF ~ \E r \in racesTbl : r.raceId = raceId
    THEN [status |-> "NotFound", races |-> racesTbl]
    ELSE [status |-> "ok",
          races |-> {IF r.raceId = raceId THEN [r EXCEPT !.locked = locked] ELSE r :
                       r \in racesTbl}]

-----------------------------------------------------------------------------
\* routes/startlist.ts

\* the optional meta attribute of a bib-0 record: absent, or one StartListMeta
NoMeta == <<>>
Meta(teamsOrder) == <<[teamsOrder |-> teamsOrder]>>

\* the bib-0 record of a race as putExcludedBibs writes it: no meta attribute
MetaItem(raceId, excludedBibs) ==
    [raceId |-> raceId, bib |-> 0, excludedBibs |-> excludedBibs, meta |-> NoMeta]

\* putExcludedBibs(raceId, excludedBibs): an unconditional put under (raceId, 0)
putExcludedBibs(tbl, raceId, excludedBibs) ==
    {i \in tbl : ~(i.raceId = raceId /\ i.bib = 0)} \cup {MetaItem(raceId, excludedBibs)}

\* getExcludedBibs(raceId)
getExcludedBibs(tbl, raceId) ==
    LET m == {i \in tbl : i.raceId = raceId /\ i.bib = 0}
    IN IF m = {} THEN <<>> ELSE (CHOOSE i \in m : TRUE).excludedBibs

racingClassOrder == <<"Varsity", "Varsity Alternate", "Jr Varsity", "Provisional">>

\* the elements of a sequence
Range(seq) == {seq[i] : i \in DOMAIN seq}

\* the orders shuffle can return for the whole TEAMS table
Draws(S) ==
    {p \in [1..Cardinality(S) -> S] : \A i, j \in DOMAIN p : p[i] = p[j] => i = j}

\* shuffle(xs) under one draw over the table: the draw's order of the members of xs
shuffle(xs, draw) == SelectSeq(draw, LAMBDA t : t \in xs)

\* getMeta(raceId): the bib-0 record if there is one
getMeta(tbl, raceId) == {i \in tbl : i.raceId = raceId /\ i.bib = 0}

\* a put under (raceId, bib) replaces the item stored under that key
PutBib(tbl, item) ==
    {i \in tbl : ~(i.raceId = item.raceId /\ i.bib = item.bib)} \cup {item}

\* deleteExistingStartList(raceId): every item of the race, the bib-0 record included
deleteExistingStartList(tbl, raceId) == {i \in tbl : i.raceId # raceId}

\* count consecutive numbers from start, excluded or not
nextBibNoSkip(start, exclude, count) == [i \in 1..count |-> start + i - 1]

\* nextAvailableBib, the run of num++ over excluded numbers: the first number from
\* num on that is not excluded
skipExcluded(num, exclude) ==
    CHOOSE m \in num..(num + Cardinality(exclude)) :
        m \notin exclude /\ \A k \in num..(m - 1) : k \in exclude

\* nextAvailableBib(start, exclude, count)
RECURSIVE nextAvailableBib(_, _, _)
nextAvailableBib(start, exclude, count) ==
    IF count = 0 THEN <<>>
    ELSE LET num == skipExcluded(start, exclude)
         IN <<num>> \o nextAvailableBib(num + 1, exclude, count - 1)

\* a StartListEntry (names left out: they are copied from the directory)
StartListEntry(raceId, racerId, teamId, gender, cls, bib) ==
    [raceId |-> raceId, bib |-> bib, racerId |-> racerId, teamId |-> teamId,
     gender |-> gender, class |-> cls]

\* makeGenderList, the body of the loop over a visiting order: the team's first
\* roster entry at (gender, cls, startOrder = pos), if its racer is in the directory
visitTeam(rosterTbl, racersTbl, raceId, tid, gender, cls, pos) ==
    LET found == {e \in getRoster(rosterTbl, raceId, tid) :
                    e.gender = gender /\ e.class = cls /\ e.startOrder = pos}
    IN IF found = {} THEN <<>>
       ELSE LET entry == First(found)
            IN IF ~ \E rc \in racersTbl : rc.teamId = tid /\ rc.racerId = entry.racerId
               THEN <<>>
               ELSE <<StartListEntry(raceId, entry.racerId, tid, gender, cls, 0)>>

RECURSIVE visitOrder(_, _, _, _, _, _, _)
visitOrder(rosterTbl, racersTbl, raceId, order, gender, cls, pos) ==
    IF order = <<>> THEN <<>>
    ELSE visitTeam(rosterTbl, racersTbl, raceId, Head(order), gender, cls, pos)
           \o visitOrder(rosterTbl, racersTbl, raceId, Tail(order), gender, cls, pos)

Reverse(seq) == [i \in 1..Len(seq) |-> seq[Len(seq) + 1 - i]]

\* makeGenderList: the largest startOrder of (gender, cls) over all teams
maxPos(rosterTbl, raceId, teamIds, gender, cls) ==
    MaxOrder({e \in rosterTbl : /\ e.raceId = raceId /\ e.teamId \in teamIds
                                /\ e.gender = gender /\ e.class = cls})

\* the loop over positions without the reversal on even positions
RECURSIVE snakeForwardOnly(_, _, _, _, _, _, _, _)
snakeForwardOnly(rosterTbl, racersTbl, raceId, baseTeamOrder, gender, cls, pos, lastPos) ==
    IF pos > lastPos THEN <<>>
    ELSE visitOrder(rosterTbl, racersTbl, raceId, baseTeamOrder, gender, cls, pos)
           \o snakeForwardOnly(rosterTbl, racersTbl, raceId, baseTeamOrder, gender, cls,
                               pos + 1, lastPos)

\* makeGenderList, the loop over positions pos..last of one class
RECURSIVE snake(_, _, _, _, _, _, _, _)
snake(rosterTbl, racersTbl, raceId, baseTeamOrder, gender, cls, pos, lastPos) ==
    IF pos > lastPos THEN <<>>
    ELSE LET forward == pos % 2 = 1
             order == IF forward THEN baseTeamOrder ELSE Reverse(baseTeamOrder)
         IN visitOrder(rosterTbl, racersTbl, raceId, order, gender, cls, pos)
              \o snake(rosterTbl, racersTbl, raceId, baseTeamOrder, gender, cls,
                       pos + 1, lastPos)

\* makeGenderList, the loop over racingClassOrder from index k on
RECURSIVE genderEntries(_, _, _, _, _, _, _)
genderEntries(rosterTbl, racersTbl, raceId, teamIds, baseTeamOrder, gender, k) ==
    IF k > Len(racingClassOrder) THEN <<>>
    ELSE snake(rosterTbl, racersTbl, raceId, baseTeamOrder, gender, racingClassOrder[k],
               1, maxPos(rosterTbl, raceId, teamIds, gender, racingClassOrder[k]))
           \o genderEntries(rosterTbl, racersTbl, raceId, teamIds, baseTeamOrder,
                            gender, k + 1)

\* makeGenderList(gender): the entries, and the base order if some class was seeded
makeGenderList(rosterTbl, racersTbl, raceId, teamIds, baseTeamOrder, gender) ==
    [entries |-> genderEntries(rosterTbl, racersTbl, raceId, teamIds, baseTeamOrder,
                               gender, 1),
     teamOrder |-> IF \E k \in DOMAIN racingClassOrder :
                        maxPos(rosterTbl, raceId, teamIds, gender, racingClassOrder[k]) > 0
                   THEN baseTeamOrder ELSE <<>>]

\* entries[i] with bib bibs[i]
withBibs(entries, bibs) ==
    [i \in 1..Len(entries) |-> [entries[i] EXCEPT !.bib = bibs[i]]]

\* the puts of a list of entries, one after the other
RECURSIVE putEntries(_, _, _)
putEntries(tbl, raceId, entries) ==
    IF entries = <<>> THEN tbl
    ELSE putEntries(PutBib(tbl, [Head(entries) EXCEPT !.raceId = raceId]), raceId,
                    Tail(entries))

\* the optional excludedBibs array of a request body: absent, or one list
NoBody == <<>>
Body(excludedBibs) == <<excludedBibs>>

\* the bibs of the women and of the men start here
WomenStart == 1
MenStart == 100

\* POST /races/{raceId}/start-list/generate.  bodyExcluded is NoBody when the body
\* has no excludedBibs array; draw is what shuffle makes of the TEAMS table.
startlistGenerate(tbl, rosterTbl, racersTbl, teamIds, raceId, bodyExcluded, draw) ==
    LET existingMeta == getMeta(tbl, raceId)
        excludeList == IF bodyExcluded # NoBody THEN bodyExcluded[1]
                       ELSE IF existingMeta # {}
                            THEN (CHOOSE i \in existingMeta : TRUE).excludedBibs
                            ELSE getExcludedBibs(tbl, raceId)
        excludedSet == Range(excludeList)
        recorded == IF existingMeta = {} THEN NoMeta
                    ELSE (CHOOSE i \in existingMeta : TRUE).meta
        existingOrder == IF recorded = NoMeta THEN <<>>
                         ELSE SelectSeq(recorded[1].teamsOrder, LAMBDA id : id \in teamIds)
        remainingTeams == {id \in teamIds : id \notin Range(existingOrder)}
        baseTeamOrder == IF Len(existingOrder) > 0
                         THEN existingOrder \o shuffle(remainingTeams, draw)
                         ELSE shuffle(teamIds, draw)
        womenRes == makeGenderList(rosterTbl, racersTbl, raceId, teamIds, baseTeamOrder,
                                   "Female")
        menRes == makeGenderList(rosterTbl, racersTbl, raceId, teamIds, baseTeamOrder,
                                 "Male")
        women == withBibs(womenRes.entries,
                          nextAvailableBib(WomenStart, excludedSet, Len(womenRes.entries)))
        men == withBibs(menRes.entries,
                        nextAvailableBib(MenStart, excludedSet, Len(menRes.entries)))
        full == women \o men
        teamsOrder == IF womenRes.teamOrder # <<>> THEN womenRes.teamOrder
                      ELSE menRes.teamOrder
        metaItem == [MetaItem(raceId, excludeList) EXCEPT !.meta = Meta(teamsOrder)]
    IN [status |-> "ok",
        startlists |-> putEntries(PutBib(deleteExistingStartList(tbl, raceId), metaItem),
                                  raceId, full),
        entries |-> full,
        teamsOrder |-> teamsOrder]

\* getStartListData(raceId)
getStartListData(tbl, raceId) ==
    LET metaItem == getMeta(tbl, raceId)
    IN [entries |-> {i \in tbl : i.raceId = raceId /\ i.bib # 0},
        meta |-> IF metaItem = {} THEN NoMeta ELSE (CHOOSE i \in metaItem : TRUE).meta,
        excludedBibs |-> IF metaItem = {} THEN <<>>
                         ELSE (CHOOSE i \in metaItem : TRUE).excludedBibs]

\* the puts of a set of entries with distinct bibs, under another race
copyEntries(tbl, raceId, entries) ==
    tbl \cup {[e EXCEPT !.raceId = raceId] : e \in entries}

\* POST /races/{raceId}/start-list/copy
startlistCopy(tbl, raceId, fromRaceId) ==
    LET source == getStartListData(tbl, fromRaceId)
    IN IF fromRaceId = None \/ fromRaceId = raceId
       THEN [status |-> "BadRequest", startlists |-> tbl]
       ELSE IF source.entries = {} /\ (source.meta = NoMeta \/ source.excludedBibs = <<>>)
       THEN [status |-> "NotFound", startlists |-> tbl]
       ELSE [status |-> "ok",
             startlists |->
                 copyEntries(
                     PutBib(deleteExistingStartList(tbl, raceId),
                            [MetaItem(raceId, source.excludedBibs)
                                EXCEPT !.meta = source.meta]),
                     raceId, source.entries),
             entries |-> source.entries,
             meta |-> source.meta]

-----------------------------------------------------------------------------
\* The seeded tables (scripts/seed.ts): teams, racers and races exist, no race
\* carries a locked attribute, there is no roster.

RaceIds == {"race1", "race2"}
TeamIds == {"t1"}
Directions == {"up", "down"}

SeedRaces == {[raceId |-> r, locked |-> FALSE] : r \in RaceIds}

Racer(racerId, teamId, gender, cls) ==
    [racerId |-> racerId, teamId |-> teamId, gender |-> gender, class |-> cls]

\* a small directory: every base class that matters and both genders
SeedRacers ==
    {Racer(1, "t1", "Male", "Varsity"),
     Racer(2, "t1", "Male", "Provisional"),
     Racer(3, "t1", "Female", "Jr Varsity")}

\* a boys' team like the seed's t4: five Varsity racers and an alternate
FullRacers ==
    {Racer(1, "t1", "Male", "Varsity"),
     Racer(2, "t1", "Male", "Varsity"),
     Racer(3, "t1", "Male", "Varsity"),
     Racer(4, "t1", "Male", "Varsity"),
     Racer(5, "t1", "Male", "Varsity Alternate"),
     Racer(6, "t1", "Male", "Varsity")}

\* the table after a script of add requests on race1, served by rosterAdd itself:
\* each request is <<racerId, desiredClass>>
RECURSIVE AddAll(_, _, _)
AddAll(tbl, dir, reqs) ==
    IF reqs = <<>> THEN tbl
    ELSE LET rc == CHOOSE x \in dir : x.racerId = Head(reqs)[1]
         IN AddAll(rosterAdd(tbl, "race1", rc.teamId, rc.racerId, rc.gender, rc.class,
                             Head(reqs)[2]).rosters,
                   dir, Tail(reqs))

\* race1 after the coach entered racers 1..4 (Varsity) and 5 (alternate) with their
\* base class, and racer 4 a second time as Jr Varsity
PreparedRoster ==
    AddAll({}, FullRacers,
           <<<<1, None>>, <<2, None>>, <<3, None>>, <<4, None>>, <<5, None>>,
             <<4, "Jr Varsity">>>>)

\* the same team with a Provisional racer in its directory
CapsRacers == FullRacers \cup {Racer(7, "t1", "Male", "Provisional")}

\* race1 after the coach entered racers 1..4, 5 and 7 with their base class
PreparedCaps ==
    AddAll({}, CapsRacers,
           <<<<1, None>>, <<2, None>>, <<3, None>>, <<4, None>>, <<5, None>>, <<7, None>>>>)

NoRequest == [op |-> "none", status |-> "none", branch |-> "none"]
\* no Generate has recorded a draw order yet
NoDraw == [r \in RaceIds |-> <<>>]
\* the clients that can have a request in progress at the same time
Actors == {"a1", "a2"}
\* an actor with no request in progress
Idle == [op |-> "none"]
NoCalls == [a \in Actors |-> Idle]

ExcludedInputs == {<<>>} \cup {<<b>> : b \in 1..MaxBib}

Init ==
    /\ races = SeedRaces
    /\ racers = SeedRacers
    /\ rosters = {}
    /\ startlists = {}
    /\ results = {}
    /\ last = NoRequest
    /\ drawn = NoDraw
    /\ calls = NoCalls
    /\ steps = MaxOps

\* SpecFull: race1 with the prepared roster.  Racers 1..3 are rostered but no longer
\* listed in the directory (DELETE /teams/{teamId}/racers/{racerId} leaves roster
\* entries in place, racers.ts:66-75), so requests name racers 4..6 only.
Unlisted == {1, 2, 3}

InitFull ==
    /\ races = {[raceId |-> "race1", locked |-> FALSE]}
    /\ racers = {rc \in FullRacers : rc.racerId \notin Unlisted}
    /\ rosters = PreparedRoster
    /\ startlists = {}
    /\ results = {}
    /\ last = NoRequest
    /\ drawn = NoDraw
    /\ calls = NoCalls
    /\ steps = MaxFullOps

\* SpecCaps: race1 one Varsity entry short of the cap, with its alternate and a
\* Provisional entry; requests name racers 4..7.
InitCaps ==
    /\ races = {[raceId |-> "race1", locked |-> FALSE]}
    /\ racers = {rc \in CapsRacers : rc.racerId \notin Unlisted}
    /\ rosters = PreparedCaps
    /\ startlists = {}
    /\ results = {}
    /\ last = NoRequest
    /\ drawn = NoDraw
    /\ calls = NoCalls
    /\ steps = MaxCapOps

-----------------------------------------------------------------------------
\* Actions: one request served to completion

\* a roster request: the router's result becomes the table, the response is noted
Serve(req) ==
    LET res == rosterRouter(races, rosters, req)
    IN /\ steps > 0
       /\ steps' = steps - 1
       /\ rosters' = res.rosters
       /\ last' = [op |-> req.op, status |-> res.status, branch |-> res.branch]
       /\ UNCHANGED <<races, racers, startlists, results, drawn, calls>>

\* the UI sends the racer's gender and base class from the directory
Add ==
    \E raceId \in {r.raceId : r \in races}, rc \in racers,
       desiredClass \in InputRacerClass \cup {None} :
        Serve(AddReq(raceId, rc.teamId, rc.racerId, rc.gender, rc.class, desiredClass))

Reclassify ==
    \E raceId \in {r.raceId : r \in races}, rc \in racers, newClass \in InputRacerClass :
        Serve(PatchReq(raceId, rc.teamId, rc.racerId, newClass))

Remove ==
    \E raceId \in {r.raceId : r \in races}, rc \in racers :
        Serve(DeleteReq(raceId, rc.teamId, rc.racerId))

Move ==
    \E raceId \in {r.raceId : r \in races}, rc \in racers, direction \in Directions :
        Serve(MoveReq(raceId, rc.teamId, rc.racerId, direction))

Copy ==
    \E raceId \in {r.raceId : r \in races}, fromRaceId \in {r.raceId : r \in races},
       teamId \in TeamIds :
        Serve(CopyReq(raceId, teamId, fromRaceId))

Fetch ==
    \E raceId \in {r.raceId : r \in races}, teamId \in TeamIds :
        Serve(GetReq(raceId, teamId))

PatchRace ==
    \E raceId \in RaceIds, locked \in BOOLEAN :
        LET res == racesPatch(races, raceId, locked)
        IN /\ steps > 0
           /\ steps' = steps - 1
           /\ races' = res.races
           /\ last' = [op |-> "races_patch", status |-> res.status, branch |-> "lock"]
           /\ UNCHANGED <<racers, rosters, startlists, results, drawn, calls>>

SetExcluded ==
    \E raceId \in RaceIds, excluded \in ExcludedInputs :
        /\ steps > 0
        /\ steps' = steps - 1
        /\ startlists' = putExcludedBibs(startlists, raceId, excluded)
        /\ last' = [op |-> "excluded", status |-> "ok", branch |-> "put"]
        /\ UNCHANGED <<races, racers, rosters, results, drawn, calls>>

Next ==
    \/ Add
    \/ Reclassify
    \/ Remove
    \/ Move
    \/ Copy
    \/ Fetch
    \/ PatchRace
    \/ SetExcluded

Spec == Init /\ [][Next]_vars

NextFull ==
    \/ Add
    \/ Reclassify
    \/ Remove
    \/ Move

SpecFull == InitFull /\ [][NextFull]_vars

\* the table after a script of roster requests, served by rosterRouter itself
RECURSIVE Replay(_, _, _)
Replay(racesTbl, tbl, reqs) ==
    IF reqs = <<>> THEN tbl
    ELSE Replay(racesTbl, rosterRouter(racesTbl, tbl, Head(reqs)).rosters, Tail(reqs))

\* race1 after the prepared roster went through two reclassifications of racer 4,
\* an add of racer 6 and the promotion of the alternate: six Varsity entries
PreparedOver ==
    Replay(SeedRaces, PreparedRoster,
           <<PatchReq("race1", "t1", 4, "Varsity"),
             AddReq("race1", "t1", 4, "Male", "Varsity", "Jr Varsity"),
             PatchReq("race1", "t1", 4, "Varsity"),
             AddReq("race1", "t1", 6, "Male", "Varsity", None),
             MoveReq("race1", "t1", 5, "up")>>)

\* SpecOver: race1 with the over-full roster, race2 empty; requests name racers 4..6
InitOver ==
    /\ races = SeedRaces
    /\ racers = {rc \in FullRacers : rc.racerId \notin Unlisted}
    /\ rosters = PreparedOver
    /\ startlists = {}
    /\ results = {}
    /\ last = NoRequest
    /\ drawn = NoDraw
    /\ calls = NoCalls
    /\ steps = MaxOverOps

NextOver ==
    \/ Add
    \/ Reclassify
    \/ Remove
    \/ Move
    \/ Copy

SpecOver == InitOver /\ [][NextOver]_vars

NextCaps ==
    \/ Add
    \/ Reclassify
    \/ Remove
    \/ Move
    \/ PatchRace

SpecCaps == InitCaps /\ [][NextCaps]_vars

-----------------------------------------------------------------------------
\* SpecStart: the start list of races whose rosters are filled

\* three of the seeded teams (scripts/seed.ts); no route writes the TEAMS table
SeedTeams == {"t1", "t2", "t3"}

\* their racers: women and men, several classes, teams of different sizes
StartRacers ==
    {Racer(11, "t1", "Female", "Varsity"), Racer(12, "t1", "Female", "Varsity"),
     Racer(13, "t1", "Male", "Varsity"), Racer(14, "t1", "Male", "Jr Varsity"),
     Racer(21, "t2", "Female", "Varsity"), Racer(22, "t2", "Male", "Varsity"),
     Racer(23, "t2", "Female", "Varsity"),
     Racer(31, "t3", "Female", "Jr Varsity"), Racer(32, "t3", "Male", "Varsity"),
     Racer(33, "t3", "Male", "Provisional")}

\* the requests that add every racer of a directory to a race, by racerId
RECURSIVE AddRequests(_, _)
AddRequests(raceId, dir) ==
    IF dir = {} THEN <<>>
    ELSE LET rc == CHOOSE x \in dir : \A y \in dir : x.racerId <= y.racerId
         IN <<AddReq(raceId, rc.teamId, rc.racerId, rc.gender, rc.class, None)>>
              \o AddRequests(raceId, dir \ {rc})

\* race1 with every racer on its team's roster, race2 with no roster yet
PreparedStart == Replay(SeedRaces, {}, AddRequests("race1", StartRacers))

\* the excludedBibs a client sends with Generate: none, or a list
\* (a short one, or every bib below the men's first one)
AllWomenBibs == [i \in 1..(MenStart - 1) |-> i]
GenerateInputs == {NoBody, Body(<<1, MenStart>>), Body(AllWomenBibs)}

InitStart ==
    /\ races = SeedRaces
    /\ racers = StartRacers
    /\ rosters = PreparedStart
    /\ startlists = {}
    /\ results = {}
    /\ last = NoRequest
    /\ drawn = NoDraw
    /\ calls = NoCalls
    /\ steps = MaxStartOps

\* POST /races/{raceId}/start-list/generate
Generate ==
    \E raceId \in RaceIds, bodyExcluded \in GenerateInputs, draw \in Draws(SeedTeams) :
        LET res == startlistGenerate(startlists, rosters, racers, SeedTeams, raceId,
                                     bodyExcluded, draw)
        IN /\ steps > 0
           /\ steps' = steps - 1
           /\ startlists' = res.startlists
           /\ drawn' = [drawn EXCEPT ![raceId] = res.teamsOrder]
           /\ last' = [op |-> "generate", status |-> res.status, branch |-> raceId,
                       entries |-> res.entries, teamsOrder |-> res.teamsOrder]
           /\ UNCHANGED <<races, racers, rosters, results, calls>>

\* POST /races/{raceId}/start-list/copy
CopyStartList ==
    \E raceId \in RaceIds, fromRaceId \in RaceIds \cup {None} :
        LET res == startlistCopy(startlists, raceId, fromRaceId)
        IN /\ steps > 0
           /\ steps' = steps - 1
           /\ startlists' = res.startlists
           /\ drawn' = IF res.status = "ok" THEN [drawn EXCEPT ![raceId] = <<>>]
                       ELSE drawn
           /\ last' = [op |-> "startlist_copy", status |-> res.status, branch |-> raceId]
           /\ UNCHANGED <<races, racers, rosters, results, calls>>

\* GET /races/{raceId}/start-list and GET .../excluded
FetchStartList ==
    \E raceId \in RaceIds :
        /\ steps > 0
        /\ steps' = steps - 1
        /\ last' = [op |-> "startlist_get", status |-> "ok", branch |-> raceId]
        /\ UNCHANGED <<races, racers, rosters, startlists, results, drawn, calls>>

\* DELETE /teams/{teamId}/racers/{racerId}: the roster entries stay
DeleteRacer ==
    \E rc \in racers :
        /\ steps > 0
        /\ steps' = steps - 1
        /\ racers' = racers \ {rc}
        /\ last' = [op |-> "racer_delete", status |-> "ok", branch |-> "delete"]
        /\ UNCHANGED <<races, rosters, startlists, results, drawn, calls>>

NextStart ==
    \/ Generate
    \/ CopyStartList
    \/ SetExcluded
    \/ FetchStartList
    \/ DeleteRacer

SpecStart == InitStart /\ [][NextStart]_vars

-----------------------------------------------------------------------------
\* Vocabulary of the properties, stated on the tables themselves

Locked(raceId) == \E r \in races : r.raceId = raceId /\ r.locked

ExistingRaces == {r.raceId : r \in races}

RacerIds == {rc.racerId : rc \in racers}

\* the entries of one (race, team, gender, class) bucket
Bucket(raceId, teamId, gender, cls) ==
    {e \in rosters : e.raceId = raceId /\ e.teamId = teamId
                     /\ e.gender = gender /\ e.class = cls}

\* the entries of one racer on one (race, team) roster
EntriesOf(raceId, teamId, racerId) ==
    {e \in rosters : e.raceId = raceId /\ e.teamId = teamId /\ e.racerId = racerId}

TeamRoster(raceId, teamId) ==
    {e \in rosters : e.raceId = raceId /\ e.teamId = teamId}

\* C1: in every bucket of a class other than DNS the startOrder values are exactly
\* 1..N, N the size of the bucket, and no DNS entry carries a startOrder.
C1_Contiguous ==
    \A raceId \in RaceIds, teamId \in TeamIds, gender \in Genders, cls \in RacerClass :
        LET b == Bucket(raceId, teamId, gender, cls)
        IN IF cls = "DNS" THEN \A e \in b : e.startOrder = Null
           ELSE /\ {e.startOrder : e \in b} = 1..Cardinality(b)
                /\ \A e1, e2 \in b : e1.startOrder = e2.startOrder => e1 = e2

\* C2: every (race, team, gender) holds at most 5 Varsity entries and at most 1
\* Varsity Alternate entry.
C2_Caps ==
    \A raceId \in RaceIds, teamId \in TeamIds, gender \in Genders :
        /\ Cardinality(Bucket(raceId, teamId, gender, "Varsity")) <= 5
        /\ Cardinality(Bucket(raceId, teamId, gender, "Varsity Alternate")) <= 1

\* C3: every roster entry of a racer whose base class is Provisional has class
\* Provisional or DNS.
C3_ProvisionalStays ==
    \A e \in rosters :
        (\E rc \in racers : rc.racerId = e.racerId /\ rc.class = "Provisional")
            => e.class \in {"Provisional", "DNS"}

\* C4: Add of a racer that already has an entry on the (race, team) roster fails with
\* DuplicateEntry and leaves the roster unchanged, whatever the class of the existing
\* entry; so a racer has at most one entry per (race, team).
C4_NoDuplicateEntry ==
    /\ \A raceId \in ExistingRaces, rc \in racers, desiredClass \in InputRacerClass \cup {None} :
          (~Locked(raceId) /\ EntriesOf(raceId, rc.teamId, rc.racerId) # {})
            => LET res == rosterRouter(races, rosters,
                              AddReq(raceId, rc.teamId, rc.racerId, rc.gender, rc.class,
                                     desiredClass))
               IN res.rosters = rosters /\ res.status # "ok"
    /\ \A raceId \in RaceIds, teamId \in TeamIds, racerId \in RacerIds :
          Cardinality(EntriesOf(raceId, teamId, racerId)) <= 1

-----------------------------------------------------------------------------
\* Capacity errors

\* the entry a PATCH, DELETE or move request resolves for the racer: the first of the
\* racer's entries in key order (a set: empty when the racer has no entry)
Resolved(raceId, teamId, racerId) ==
    LET mine == EntriesOf(raceId, teamId, racerId)
    IN IF mine = {} THEN {}
       ELSE {CHOOSE x \in mine : \A y \in mine \ {x} : SkLess(x, y)}

\* the class is capped and its (race, team, gender) bucket holds the cap or more
AtCap(raceId, teamId, gender, cls) ==
    \/ cls = "Varsity" /\ Cardinality(Bucket(raceId, teamId, gender, "Varsity")) >= 5
    \/ cls = "Varsity Alternate"
       /\ Cardinality(Bucket(raceId, teamId, gender, "Varsity Alternate")) >= 1

\* the response is CapacityExceeded and the table is as before
RefusedForCapacity(res) == res.status = "CapacityExceeded" /\ res.rosters = rosters

\* an Add on an unlocked race whose resolved class is at its cap is refused
AddAtCapRefused ==
    \A raceId \in ExistingRaces, rc \in racers, desiredClass \in InputRacerClass \cup {None} :
        LET cls == IF rc.class = "Provisional"
                   THEN (IF desiredClass \in {"DNS", "DNS - Did Not Start"}
                         THEN "DNS" ELSE "Provisional")
                   ELSE (IF desiredClass = None THEN rc.class
                         ELSE IF desiredClass = "DNS - Did Not Start" THEN "DNS"
                         ELSE desiredClass)
        IN (~Locked(raceId) /\ AtCap(raceId, rc.teamId, rc.gender, cls))
             => RefusedForCapacity(rosterRouter(races, rosters,
                    AddReq(raceId, rc.teamId, rc.racerId, rc.gender, rc.class, desiredClass)))

\* C5 as stated: an Add, or a Reclassify of a rostered racer, whose class is Varsity
\* with 5 Varsity entries in the (race, team, gender), or Varsity Alternate with 1,
\* fails with CapacityExceeded and leaves the roster unchanged.
C5_CapacityExceededAlways ==
    /\ AddAtCapRefused
    /\ \A raceId \in ExistingRaces, rc \in racers, newClass \in {"Varsity", "Varsity Alternate"} :
          \A entry \in Resolved(raceId, rc.teamId, rc.racerId) :
              (~Locked(raceId) /\ AtCap(raceId, rc.teamId, entry.gender, newClass))
                => RefusedForCapacity(rosterRouter(races, rosters,
                       PatchReq(raceId, rc.teamId, rc.racerId, newClass)))

\* C5: on an unlocked race, an Add whose resolved class is at its cap, and a Reclassify
\* to a class at its cap of an entry whose class is neither that class nor Provisional,
\* fail with CapacityExceeded and leave the roster unchanged.
C5_CapacityExceeded ==
    /\ AddAtCapRefused
    /\ \A raceId \in ExistingRaces, rc \in racers, newClass \in {"Varsity", "Varsity Alternate"} :
          \A entry \in Resolved(raceId, rc.teamId, rc.racerId) :
              (/\ ~Locked(raceId)
               /\ AtCap(raceId, rc.teamId, entry.gender, newClass)
               /\ entry.class \notin {newClass, "Provisional"})
                => RefusedForCapacity(rosterRouter(races, rosters,
                       PatchReq(raceId, rc.teamId, rc.racerId, newClass)))

\* a request was refused for capacity with the Varsity bucket of race1 at its cap
C5_Witness ==
    /\ last.op \in {"add", "patch"}
    /\ last.status = "CapacityExceeded"
    /\ Cardinality(Bucket("race1", "t1", "Male", "Varsity")) = 5

-----------------------------------------------------------------------------
\* The race lock

\* every mutating roster request a client can send for the race and team
MutatingRequests(raceId, teamId) ==
    {AddReq(raceId, teamId, rc.racerId, rc.gender, rc.class, desiredClass) :
        rc \in racers, desiredClass \in InputRacerClass \cup {None}}
    \cup {PatchReq(raceId, teamId, racerId, newClass) :
            racerId \in RacerIds, newClass \in InputRacerClass}
    \cup {DeleteReq(raceId, teamId, racerId) : racerId \in RacerIds}
    \cup {MoveReq(raceId, teamId, racerId, direction) :
            racerId \in RacerIds, direction \in Directions}
    \cup {CopyReq(raceId, teamId, fromRaceId) : fromRaceId \in RaceIds \cup {None}}

\* on a locked race every mutating request is answered RaceLocked and leaves the
\* table as it is, and a fetch is answered with the roster
LockRefusesMutation ==
    \A raceId \in RaceIds, teamId \in TeamIds :
        Locked(raceId) =>
            /\ \A req \in MutatingRequests(raceId, teamId) :
                  LET res == rosterRouter(races, rosters, req)
                  IN res.status = "RaceLocked" /\ res.rosters = rosters
            /\ LET res == rosterRouter(races, rosters, GetReq(raceId, teamId))
               IN /\ res.status = "ok"
                  /\ res.body = TeamRoster(raceId, teamId)
                  /\ res.rosters = rosters

\* a step that starts and ends with the race locked leaves its rosters as they were
LockedRosterKept ==
    \A raceId \in RaceIds, teamId \in TeamIds :
        (Locked(raceId) /\ Locked(raceId)')
            => TeamRoster(raceId, teamId)' = TeamRoster(raceId, teamId)

\* C6: on a locked race Add, Reclassify, Remove, Move and Copy into the race fail with
\* RaceLocked and change no roster entry, a fetch still succeeds, and the rosters of a
\* race are the same before and after every request served while it stays locked.
C6_LockedRosterFrozen == [](LockRefusesMutation) /\ [][LockedRosterKept]_vars

\* a mutating request was refused on a locked race that has a roster
C6_Witness ==
    /\ last.op \in {"add", "patch", "delete", "move", "copy"}
    /\ last.status = "RaceLocked"
    /\ \E raceId \in RaceIds : Locked(raceId) /\ TeamRoster(raceId, "t1") # {}

\* the stored start-list items and result items of a race
StartListOf(raceId) == {i \in startlists : i.raceId = raceId}
ResultsOf(raceId) == {i \in results : i.raceId = raceId}

\* C7: a request served while a race is and stays locked leaves the stored start-list
\* items and result items of that race unchanged.
C7_LockedStartListFrozen ==
    [][\A raceId \in RaceIds :
          (Locked(raceId) /\ Locked(raceId)')
            => /\ StartListOf(raceId)' = StartListOf(raceId)
               /\ ResultsOf(raceId)' = ResultsOf(raceId)]_vars

-----------------------------------------------------------------------------
\* Remove

\* C8: on an unlocked race, Remove of a racer without an entry answers with the
\* current roster, reports no error and changes nothing, and a second Remove of any
\* racer leaves the table the first Remove left.
C8_RemoveIdempotent ==
    \A raceId \in ExistingRaces, rc \in racers :
        ~Locked(raceId) =>
            LET req == DeleteReq(raceId, rc.teamId, rc.racerId)
                once == rosterRouter(races, rosters, req)
                twice == rosterRouter(races, once.rosters, req)
            IN /\ EntriesOf(raceId, rc.teamId, rc.racerId) = {}
                    => /\ once.status = "ok"
                       /\ once.rosters = rosters
                       /\ once.body = TeamRoster(raceId, rc.teamId)
               /\ twice.status = "ok"
               /\ twice.rosters = once.rosters

-----------------------------------------------------------------------------
\* Move of the Varsity Alternate

\* the served move requests whose resolved entry is a Varsity Alternate on an
\* unlocked race: <<raceId, entry>>
AlternateMoves ==
    {<<raceId, entry>> \in ExistingRaces \X rosters :
        /\ ~Locked(raceId)
        /\ entry.class = "Varsity Alternate"
        /\ \E rc \in racers : entry \in Resolved(raceId, rc.teamId, rc.racerId)}

\* no Varsity Alternate of the gender is left in the table
NoAlternate(tbl, raceId, teamId, gender) ==
    ~ \E e \in tbl : /\ e.raceId = raceId /\ e.teamId = teamId
                     /\ e.gender = gender /\ e.class = "Varsity Alternate"

\* C9: Move(Varsity Alternate, up) succeeds; with a Varsity #5 of the gender the mover
\* becomes Varsity #5 and that entry the Varsity Alternate at the mover's old
\* startOrder; without one the mover becomes Varsity at max+1 and no Varsity Alternate
\* remains; every other entry is unchanged.
C9_AlternateUp ==
    \A m \in AlternateMoves :
        LET raceId == m[1]
            entry == m[2]
            res == rosterRouter(races, rosters,
                       MoveReq(raceId, entry.teamId, entry.racerId, "up"))
            varsity == Bucket(raceId, entry.teamId, entry.gender, "Varsity")
            fifths == {v \in varsity : v.startOrder = 5}
        IN /\ res.status = "ok"
           /\ IF fifths # {}
              THEN \E v \in fifths :
                     res.rosters = (rosters \ {entry, v})
                        \cup {Rekey(entry, "Varsity", 5),
                              Rekey(v, "Varsity Alternate", entry.startOrder)}
              ELSE /\ res.rosters = (rosters \ {entry})
                        \cup {Rekey(entry, "Varsity", MaxOrder(varsity) + 1)}
                   /\ NoAlternate(res.rosters, raceId, entry.teamId, entry.gender)

\* C10: Move(Varsity Alternate, down) succeeds; with a Jr Varsity #1 of the gender the
\* mover becomes Jr Varsity #1 and that entry the Varsity Alternate at the mover's old
\* startOrder; with no Jr Varsity entry of the gender the mover becomes Jr Varsity #1
\* and no Varsity Alternate remains; every other entry is unchanged.
C10_AlternateDown ==
    \A m \in AlternateMoves :
        LET raceId == m[1]
            entry == m[2]
            res == rosterRouter(races, rosters,
                       MoveReq(raceId, entry.teamId, entry.racerId, "down"))
            jrVarsity == Bucket(raceId, entry.teamId, entry.gender, "Jr Varsity")
            tops == {j \in jrVarsity : j.startOrder = 1}
        IN /\ res.status = "ok"
           /\ tops # {}
                => \E j \in tops :
                     res.rosters = (rosters \ {entry, j})
                        \cup {Rekey(entry, "Jr Varsity", 1),
                              Rekey(j, "Varsity Alternate", entry.startOrder)}
           /\ jrVarsity = {}
                => /\ res.rosters = (rosters \ {entry}) \cup {Rekey(entry, "Jr Varsity", 1)}
                   /\ NoAlternate(res.rosters, raceId, entry.teamId, entry.gender)

\* the alternate of race1 was moved down and swapped with the Jr Varsity #1
C10_Witness ==
    /\ last.op = "move"
    /\ last.branch = "va_down_swap"
    /\ Item("race1", "t1", "Male", "Jr Varsity", 5, 1) \in rosters
    /\ \E e \in Bucket("race1", "t1", "Male", "Varsity Alternate") : e.racerId # 5

-----------------------------------------------------------------------------
\* Move of the Jr Varsity #1 and of the last Varsity

\* the served move requests whose resolved entry has the class, on an unlocked
\* race: <<raceId, entry>>
MovesOf(cls) ==
    {<<raceId, entry>> \in ExistingRaces \X rosters :
        /\ ~Locked(raceId)
        /\ entry.class = cls
        /\ \E rc \in racers : entry \in Resolved(raceId, rc.teamId, rc.racerId)}

\* the entries of a table in one (race, team, gender, class) bucket
BucketIn(tbl, raceId, teamId, gender, cls) ==
    {e \in tbl : e.raceId = raceId /\ e.teamId = teamId
                 /\ e.gender = gender /\ e.class = cls}

\* the two tables agree outside the two classes of one (race, team, gender)
SameOutside(tbl, raceId, teamId, gender, clsA, clsB) ==
    LET touched(t) == BucketIn(t, raceId, teamId, gender, clsA)
                        \cup BucketIn(t, raceId, teamId, gender, clsB)
    IN tbl \ touched(tbl) = rosters \ touched(rosters)

\* C11: Move(Jr Varsity #1, up) succeeds and the mover becomes the Varsity Alternate;
\* a Varsity Alternate of the gender becomes the Jr Varsity #1 in exchange; without
\* one, every other Jr Varsity entry of the gender is decremented by 1 and the Jr
\* Varsity bucket is numbered 1..N afterwards; no other bucket changes.
C11_JvTopUp ==
    \A m \in MovesOf("Jr Varsity") :
        LET raceId == m[1]
            entry == m[2]
            res == rosterRouter(races, rosters,
                       MoveReq(raceId, entry.teamId, entry.racerId, "up"))
            alternates == Bucket(raceId, entry.teamId, entry.gender, "Varsity Alternate")
            others == Bucket(raceId, entry.teamId, entry.gender, "Jr Varsity") \ {entry}
            vaAfter == BucketIn(res.rosters, raceId, entry.teamId, entry.gender,
                                "Varsity Alternate")
            jvAfter == BucketIn(res.rosters, raceId, entry.teamId, entry.gender,
                                "Jr Varsity")
        IN entry.startOrder = 1 =>
             /\ res.status = "ok"
             /\ SameOutside(res.rosters, raceId, entry.teamId, entry.gender,
                            "Jr Varsity", "Varsity Alternate")
             /\ IF alternates # {}
                THEN \E v \in alternates :
                       /\ Rekey(entry, "Varsity Alternate", v.startOrder) \in vaAfter
                       /\ v.racerId # entry.racerId => v \notin vaAfter
                       /\ {e \in jvAfter : e.startOrder = 1} = {Rekey(v, "Jr Varsity", 1)}
                ELSE /\ vaAfter = {Rekey(entry, "Varsity Alternate", 1)}
                     /\ jvAfter = {[o EXCEPT !.startOrder = o.startOrder - 1] : o \in others}
                     /\ {e.startOrder : e \in jvAfter} = 1..Cardinality(jvAfter)
                     /\ Cardinality(jvAfter) = Cardinality(others)

\* C12: Move(last Varsity, down) succeeds and the mover becomes the Varsity Alternate;
\* a Varsity Alternate of the gender becomes Varsity at the mover's old startOrder in
\* exchange; without one the mover is the only Varsity Alternate, at startOrder 1, and
\* the Varsity bucket is the old one less the mover; no other racer's entry changes.
C12_LastVarsityDown ==
    \A m \in MovesOf("Varsity") :
        LET raceId == m[1]
            entry == m[2]
            res == rosterRouter(races, rosters,
                       MoveReq(raceId, entry.teamId, entry.racerId, "down"))
            alternates == Bucket(raceId, entry.teamId, entry.gender, "Varsity Alternate")
            varsity == Bucket(raceId, entry.teamId, entry.gender, "Varsity")
            vaAfter == BucketIn(res.rosters, raceId, entry.teamId, entry.gender,
                                "Varsity Alternate")
            varsityAfter == BucketIn(res.rosters, raceId, entry.teamId, entry.gender,
                                     "Varsity")
        IN (\A o \in varsity : o.startOrder <= entry.startOrder) =>
             /\ res.status = "ok"
             /\ SameOutside(res.rosters, raceId, entry.teamId, entry.gender,
                            "Varsity", "Varsity Alternate")
             /\ entry \notin varsityAfter
             /\ IF alternates # {}
                THEN \E v \in alternates :
                       /\ Rekey(entry, "Varsity Alternate", v.startOrder) \in vaAfter
                       /\ v \notin vaAfter
                       /\ Rekey(v, "Varsity", entry.startOrder) \in varsityAfter
                       /\ \A o \in varsity :
                            o.racerId \notin {entry.racerId, v.racerId}
                              => o \in varsityAfter
                ELSE /\ vaAfter = {Rekey(entry, "Varsity Alternate", 1)}
                     /\ varsityAfter = varsity \ {entry}
                     /\ Cardinality(varsityAfter) = Cardinality(varsity) - 1

\* the last Varsity of race1, racer 6 at #5, was moved down and swapped with the
\* alternate, racer 5
C12_Witness ==
    /\ last.op = "move"
    /\ last.branch = "v_down_swap"
    /\ Item("race1", "t1", "Male", "Varsity Alternate", 6, 1) \in rosters
    /\ Item("race1", "t1", "Male", "Varsity", 5, 5) \in rosters

-----------------------------------------------------------------------------
\* Move inside a bucket

\* the served move requests that meet none of the boundary cases: the resolved entry
\* is Varsity (not the last one going down), Jr Varsity (not the #1 going up) or
\* Provisional, on an unlocked race: <<raceId, entry, direction>>
PlainMoves ==
    {m \in (ExistingRaces \X rosters) \X Directions :
        LET raceId == m[1][1]
            entry == m[1][2]
            direction == m[2]
            bucket == Bucket(raceId, entry.teamId, entry.gender, entry.class)
        IN /\ ~Locked(raceId)
           /\ \E rc \in racers : entry \in Resolved(raceId, rc.teamId, rc.racerId)
           /\ entry.class \in {"Varsity", "Jr Varsity", "Provisional"}
           /\ ~(entry.class = "Jr Varsity" /\ direction = "up" /\ entry.startOrder = 1)
           /\ ~(/\ entry.class = "Varsity" /\ direction = "down"
                /\ \A o \in bucket : o.startOrder <= entry.startOrder)}

\* the entries of the bucket on the side of the mover the direction points to
Beyond(bucket, entry, direction) ==
    {o \in bucket : IF direction = "up" THEN o.startOrder < entry.startOrder
                    ELSE o.startOrder > entry.startOrder}

\* C13: a Move that meets none of the boundary cases succeeds; the mover and the
\* entry next to it in its bucket in the requested direction exchange their
\* startOrder and nothing else changes; with no entry on that side of the bucket the
\* roster is returned unchanged.
C13_PlainSwap ==
    \A m \in PlainMoves :
        LET raceId == m[1][1]
            entry == m[1][2]
            direction == m[2]
            res == rosterRouter(races, rosters,
                       MoveReq(raceId, entry.teamId, entry.racerId, direction))
            bucket == Bucket(raceId, entry.teamId, entry.gender, entry.class)
            beyond == Beyond(bucket, entry, direction)
        IN /\ res.status = "ok"
           /\ IF beyond = {}
              THEN res.rosters = rosters /\ res.body = TeamRoster(raceId, entry.teamId)
              ELSE \E n \in beyond :
                     /\ \A o \in beyond :
                          IF direction = "up" THEN o.startOrder <= n.startOrder
                          ELSE o.startOrder >= n.startOrder
                     /\ res.rosters = (rosters \ {entry, n})
                          \cup {[entry EXCEPT !.startOrder = n.startOrder],
                                [n EXCEPT !.startOrder = entry.startOrder]}

\* Varsity #4 of race1, racer 4, was moved up and exchanged places with racer 3
C13_Witness ==
    /\ last.op = "move"
    /\ last.branch = "swapped"
    /\ Item("race1", "t1", "Male", "Varsity", 4, 3) \in rosters
    /\ Item("race1", "t1", "Male", "Varsity", 3, 4) \in rosters

-----------------------------------------------------------------------------
\* Refused roster requests

\* the response has the status and the table is as before
Refused(res, status) == res.status = status /\ res.rosters = rosters

\* C14: on an unlocked race, Reclassify of a Provisional entry to a class other than
\* Provisional or DNS fails with ProvisionalLocked, Move of a DNS entry fails with
\* InvalidState, Reclassify and Move of a racer without an entry fail with NotFound,
\* and each leaves every roster entry as it was.
C14_RefusedUnchanged ==
    \A raceId \in ExistingRaces, rc \in racers :
        ~Locked(raceId) =>
            LET resolved == Resolved(raceId, rc.teamId, rc.racerId)
                patch(newClass) == rosterRouter(races, rosters,
                                       PatchReq(raceId, rc.teamId, rc.racerId, newClass))
                move(direction) == rosterRouter(races, rosters,
                                       MoveReq(raceId, rc.teamId, rc.racerId, direction))
            IN /\ \A entry \in resolved :
                    /\ entry.class = "Provisional"
                         => \A newClass \in {"Varsity", "Varsity Alternate", "Jr Varsity"} :
                               Refused(patch(newClass), "ProvisionalLocked")
                    /\ entry.class = "DNS"
                         => \A direction \in Directions :
                               Refused(move(direction), "InvalidState")
               /\ resolved = {}
                    => /\ \A newClass \in InputRacerClass :
                             Refused(patch(newClass), "NotFound")
                       /\ \A direction \in Directions :
                             Refused(move(direction), "NotFound")

\* a Move was refused because the racer's entry is DNS
C14_Witness ==
    /\ last.op = "move"
    /\ last.status = "InvalidState"
    /\ \E e \in rosters : e.class = "DNS" /\ e.startOrder = Null

-----------------------------------------------------------------------------
\* Reclassify

\* the PATCH requests on an unlocked race that resolve an entry:
\* <<raceId, entry, newClass>> with newClass normalised
Reclassifications ==
    {m \in (ExistingRaces \X rosters) \X RacerClass :
        /\ ~Locked(m[1][1])
        /\ \E rc \in racers : m[1][2] \in Resolved(m[1][1], rc.teamId, rc.racerId)}

\* C15: a Reclassify to another class that neither the Provisional lock nor a cap
\* refuses succeeds; the entry leaves its old bucket, whose entries with a larger
\* startOrder are decremented by 1, and is placed in the new bucket at the bucket's
\* largest startOrder (0 if empty) plus 1, with no startOrder if the new class is
\* DNS; no other racer's entry changes.  A Reclassify to the entry's class changes
\* nothing.
C15_Reclassify ==
    \A m \in Reclassifications :
        LET raceId == m[1][1]
            entry == m[1][2]
            newClass == m[2]
            res == rosterRouter(races, rosters,
                       PatchReq(raceId, entry.teamId, entry.racerId, newClass))
            oldBucket == Bucket(raceId, entry.teamId, entry.gender, entry.class)
            newBucket == Bucket(raceId, entry.teamId, entry.gender, newClass)
            oldAfter == BucketIn(res.rosters, raceId, entry.teamId, entry.gender,
                                 entry.class)
            newAfter == BucketIn(res.rosters, raceId, entry.teamId, entry.gender,
                                 newClass)
            placed == Item(raceId, entry.teamId, entry.gender, newClass, entry.racerId,
                           IF newClass = "DNS" THEN Null ELSE MaxOrder(newBucket) + 1)
        IN IF newClass = entry.class
           THEN res.status = "ok" /\ res.rosters = rosters
           ELSE (/\ ~(entry.class = "Provisional" /\ newClass # "DNS")
                 /\ ~AtCap(raceId, entry.teamId, entry.gender, newClass))
                  => /\ res.status = "ok"
                     /\ SameOutside(res.rosters, raceId, entry.teamId, entry.gender,
                                    entry.class, newClass)
                     /\ oldAfter =
                          {IF o.startOrder > entry.startOrder
                           THEN [o EXCEPT !.startOrder = o.startOrder - 1] ELSE o :
                             o \in oldBucket \ {entry}}
                     /\ newAfter =
                          {o \in newBucket : o.racerId # entry.racerId} \cup {placed}

\* Varsity #4 of race1, racer 4, was reclassified to Jr Varsity #1 and the Varsity
\* entry behind it, racer 6, moved from #5 to #4
C15_Witness ==
    /\ last.op = "patch"
    /\ last.branch = "reclassified"
    /\ Item("race1", "t1", "Male", "Jr Varsity", 4, 1) \in rosters
    /\ Item("race1", "t1", "Male", "Varsity", 6, 4) \in rosters

-----------------------------------------------------------------------------
\* Roster copy

\* the place of an entry in its own bucket: 1 + the number of entries of the bucket
\* with a smaller startOrder (equal ones in key order)
RankInBucket(e, roster) ==
    1 + Cardinality({o \in roster :
            /\ o.gender = e.gender /\ o.class = e.class
            /\ \/ SO(o) < SO(e)
               \/ SO(o) = SO(e) /\ o.racerId < e.racerId})

\* what a copy of the source roster into the race is to leave there: the entries
\* other than DNS, the first 5 of a Varsity bucket and the first of a Varsity
\* Alternate bucket only, numbered by their place in the bucket
CopyOf(source, raceId) ==
    {Item(raceId, e.teamId, e.gender, e.class, e.racerId, RankInBucket(e, source)) :
        e \in {x \in source :
                 /\ x.class # "DNS"
                 /\ x.class = "Varsity" => RankInBucket(x, source) <= 5
                 /\ x.class = "Varsity Alternate" => RankInBucket(x, source) <= 1}}

\* C16: a roster Copy into an unlocked race succeeds and leaves as the destination
\* team roster exactly the source's entries other than DNS, less those over the
\* Varsity and Varsity Alternate caps, with their gender and class and numbered 1..N
\* per bucket in the source's startOrder order; nothing of the old destination roster
\* survives, no DNS entry is present, and no other roster changes.
C16_RosterCopy ==
    \A raceId \in ExistingRaces, fromRaceId \in RaceIds, teamId \in TeamIds :
        ~Locked(raceId) =>
            LET res == rosterRouter(races, rosters, CopyReq(raceId, teamId, fromRaceId))
                after == {e \in res.rosters : e.raceId = raceId /\ e.teamId = teamId}
            IN /\ res.status = "ok"
               /\ after = CopyOf(TeamRoster(fromRaceId, teamId), raceId)
               /\ \A e \in after : e.class # "DNS"
               /\ \A gender \in Genders, cls \in RacerClass \ {"DNS"} :
                     LET b == {e \in after : e.gender = gender /\ e.class = cls}
                     IN {e.startOrder : e \in b} = 1..Cardinality(b)
               /\ res.rosters \ after = rosters \ TeamRoster(raceId, teamId)

\* race1, with six Varsity entries, was copied into race2, which holds the first five
C16_Witness ==
    /\ last.op = "copy"
    /\ last.branch = "copied"
    /\ Cardinality(Bucket("race1", "t1", "Male", "Varsity")) = 6
    /\ Cardinality(Bucket("race2", "t1", "Male", "Varsity")) = 5
    /\ TeamRoster("race2", "t1") = CopyOf(TeamRoster("race1", "t1"), "race2")

-----------------------------------------------------------------------------------------------------------------------------------------------------
\* Start-list Generate

\* the racer is in the team's directory
Listed(teamId, racerId) == \E rc \in racers : rc.teamId = teamId /\ rc.racerId = racerId

\* the roster entries of a race that Generate seeds: those of a racing class
Seeded(raceId) ==
    {e \in rosters : e.raceId = raceId /\ e.teamId \in SeedTeams /\ e.class # "DNS"}

\* the startOrder the roster holds for an emitted entry
StartOrderOf(x) ==
    LET e == CHOOSE e \in Seeded(x.raceId) :
                 /\ e.teamId = x.teamId /\ e.gender = x.gender
                 /\ e.class = x.class /\ e.racerId = x.racerId
    IN e.startOrder

\* the place of a team in a draw order
DrawPos(order, teamId) == CHOOSE i \in DOMAIN order : order[i] = teamId

\* an emitted entry stands for this roster entry
Emits(x, e) ==
    /\ x.teamId = e.teamId /\ x.gender = e.gender
    /\ x.class = e.class /\ x.racerId = e.racerId

\* the last request was a Generate: last holds the race, the entries and the draw order
Generated == last.op = "generate"

\* within one gender and class the emitted entries follow the snake: by startOrder,
\* and within one startOrder by draw order (odd) or reverse draw order (even)
SnakeOrdered(res) ==
    \A i, j \in DOMAIN res.entries :
        LET a == res.entries[i]
            b == res.entries[j]
        IN (i < j /\ a.gender = b.gender /\ a.class = b.class)
             => \/ StartOrderOf(a) < StartOrderOf(b)
                \/ /\ StartOrderOf(a) = StartOrderOf(b)
                   /\ IF StartOrderOf(a) % 2 = 1
                      THEN DrawPos(res.teamsOrder, a.teamId) < DrawPos(res.teamsOrder, b.teamId)
                      ELSE DrawPos(res.teamsOrder, a.teamId) > DrawPos(res.teamsOrder, b.teamId)

\* C17 as stated: Generate seeds each (gender, class) as a snake over the draw order,
\* and every roster entry of a racing class is emitted.
C17_SnakeSeedingAll ==
    Generated
      => /\ SnakeOrdered(last)
         /\ \A e \in Seeded(last.branch) :
                \E i \in DOMAIN last.entries : Emits(last.entries[i], e)

\* C17: Generate seeds each (gender, class) as a snake over the draw order (smaller
\* startOrder first; equal startOrders in draw order when odd, in reverse draw order
\* when even), and every roster entry of a racing class whose racer is still in its
\* team's directory is emitted; an entry of a racer deleted from the directory is not.
C17_SnakeSeeding ==
    Generated
      => /\ SnakeOrdered(last)
         /\ \A e \in Seeded(last.branch) :
                Listed(e.teamId, e.racerId)
                  <=> \E i \in DOMAIN last.entries : Emits(last.entries[i], e)

\* a Generate emitted two teams' racers of one bucket at an even startOrder, while a
\* rostered racer of the race was no longer in the directory
C17_Witness ==
    /\ Generated
    /\ \E i, j \in DOMAIN last.entries :
           LET x == last.entries[i]
               y == last.entries[j]
           IN /\ x.teamId # y.teamId /\ x.gender = y.gender /\ x.class = y.class
              /\ StartOrderOf(x) = StartOrderOf(y) /\ StartOrderOf(x) % 2 = 0
    /\ \E e \in Seeded(last.branch) : ~ Listed(e.teamId, e.racerId)

\* the race's stored excluded bibs
ExcludedIn(tbl, raceId) ==
    UNION {Range(i.excludedBibs) : i \in {m \in tbl : m.raceId = raceId /\ m.bib = 0}}

FirstBib(gender) == IF gender = "Female" THEN WomenStart ELSE MenStart

\* a gender's field is class-major, and its bibs are, in that order, the first free
\* numbers from the gender's first bib on
BibsInOrder(field, excluded, gender) ==
    /\ \A i, j \in DOMAIN field :
           i < j => /\ CLASS_ORDER(field[i].class) <= CLASS_ORDER(field[j].class)
                    /\ field[i].bib < field[j].bib
    /\ \A i \in DOMAIN field :
           /\ field[i].bib >= FirstBib(gender)
           /\ field[i].bib \notin excluded /\ field[i].bib # 0
           /\ \A b \in FirstBib(gender)..field[i].bib :
                  b \notin excluded => \E j \in DOMAIN field : field[j].bib = b

\* C18: Generate answers with each gender's field class-major (Varsity, Varsity
\* Alternate, Jr Varsity, Provisional) and numbered in that order with the increasing
\* bibs from 1 (women) and from 100 (men) that skip every excluded bib; no entry has
\* an excluded bib or bib 0.
C18_BibsClassMajor ==
    Generated
      => \A gender \in Genders :
             BibsInOrder(SelectSeq(last.entries, LAMBDA x : x.gender = gender),
                         ExcludedIn(startlists, last.branch), gender)

\* a Generate numbered women and men of several classes around excluded bibs
C18_Witness ==
    /\ Generated
    /\ WomenStart \in ExcludedIn(startlists, last.branch)
    /\ MenStart \in ExcludedIn(startlists, last.branch)
    /\ \A gender \in Genders :
           \E i, j \in DOMAIN last.entries :
               /\ last.entries[i].gender = gender /\ last.entries[j].gender = gender
               /\ last.entries[i].class # last.entries[j].class
               /\ last.entries[i].bib = FirstBib(gender) + 1

\* the second draw order keeps the relative order of the teams of the first, and
\* puts the teams the first did not hold after all of them
KeepsOrder(old, new) ==
    \A i, j \in DOMAIN new :
        /\ (i < j /\ new[i] \in Range(old) /\ new[j] \in Range(old))
             => DrawPos(old, new[i]) < DrawPos(old, new[j])
        /\ (new[i] \notin Range(old) /\ new[j] \in Range(old)) => j < i

\* C19: a Generate on a race whose previous Generate recorded a draw order, with only
\* fetches, excluded-bib updates and requests on other tables in between, records a
\* draw order that keeps the relative order of the teams of the previous one.
C19_DrawOrderStable ==
    [][last'.op = "generate"
         => KeepsOrder(drawn[last'.branch], drawn'[last'.branch])]_vars

\* the stored entries of a race in a table, without the race they are stored under
EntriesIn(tbl, raceId) ==
    {[bib |-> i.bib, racerId |-> i.racerId, teamId |-> i.teamId, gender |-> i.gender,
      class |-> i.class] : i \in {x \in tbl : x.raceId = raceId /\ x.bib > 0}}

\* the entries a call answered with, without the race
Produced(entries) ==
    {[bib |-> x.bib, racerId |-> x.racerId, teamId |-> x.teamId, gender |-> x.gender,
      class |-> x.class] : x \in entries}

\* C20: after a Generate, and after a start-list Copy that succeeds, the stored entries
\* of the race with bib > 0 are exactly the entries the call produced; no entry of
\* the race's previous start list is left, whatever its bib.
C20_ListReplaced ==
    /\ Generated => EntriesIn(startlists, last.branch) = Produced(Range(last.entries))
    /\ \A raceId \in RaceIds, fromRaceId \in RaceIds :
           LET res == startlistCopy(startlists, raceId, fromRaceId)
           IN res.status = "ok"
                => EntriesIn(res.startlists, raceId) = EntriesIn(startlists, fromRaceId)

-----------------------------------------------------------------------------
\* Start-list Copy

\* the recorded draw order of a race in a table: the meta attribute of its bib-0 item
MetaIn(tbl, raceId) ==
    LET m == {i \in tbl : i.raceId = raceId /\ i.bib = 0}
    IN IF m = {} THEN NoMeta ELSE (CHOOSE i \in m : TRUE).meta

\* C21: a start-list Copy from the race itself, or from a race with no start-list
\* entry, fails and leaves the table as it is; any other Copy leaves the destination
\* with the entries, the excluded bibs and the draw order of the source.
C21_StartListCopy ==
    \A raceId \in RaceIds, fromRaceId \in RaceIds :
        LET res == startlistCopy(startlists, raceId, fromRaceId)
        IN IF fromRaceId = raceId \/ EntriesIn(startlists, fromRaceId) = {}
           THEN res.status # "ok" /\ res.startlists = startlists
           ELSE /\ res.status = "ok"
                /\ EntriesIn(res.startlists, raceId) = EntriesIn(startlists, fromRaceId)
                /\ ExcludedIn(res.startlists, raceId) = ExcludedIn(startlists, fromRaceId)
                /\ MetaIn(res.startlists, raceId) = MetaIn(startlists, fromRaceId)

-----------------------------------------------------------------------------
\* Results: reading a timing file (routes/results.ts)

ladder ==
    <<100, 80, 60, 50, 45, 40, 36, 32, 29, 26, 24, 22, 20, 18, 16, 15, 14, 13, 12, 11,
      10, 9, 8, 7, 6, 5, 4, 3, 2, 1>>

\* a sequence given element by element, computed once
Tuple(f) == f \o <<>>

\* names are sequences of one-character strings
UpperCase ==
    <<"A", "B", "C", "D", "E", "F", "G", "H", "I", "J", "K", "L", "M",
      "N", "O", "P", "Q", "R", "S", "T", "U", "V", "W", "X", "Y", "Z">>

LowerCase ==
    <<"a", "b", "c", "d", "e", "f", "g", "h", "i", "j", "k", "l", "m",
      "n", "o", "p", "q", "r", "s", "t", "u", "v", "w", "x", "y", "z">>

Digits == <<"0", "1", "2", "3", "4", "5", "6", "7", "8", "9">>

\* String.prototype.trim
trim(s) ==
    LET ink == {i \in DOMAIN s : s[i] # " "}
    IN IF ink = {} THEN <<>>
       ELSE SubSeq(s, CHOOSE i \in ink : \A j \in ink : i <= j,
                      CHOOSE i \in ink : \A j \in ink : j <= i)

\* trim; "Last, First" flipped around the first comma; every character that is not a
\* letter, a digit or a space replaced by a space; lower case; runs of spaces collapsed; trim
normalizeName(name) ==
    LET raw == trim(name)
        commas == {i \in DOMAIN raw : raw[i] = ","}
        flipped ==
            IF commas = {} THEN raw
            ELSE LET idx == CHOOSE i \in commas : \A j \in commas : i <= j
                 IN SubSeq(raw, idx + 1, Len(raw)) \o <<" ">> \o SubSeq(raw, 1, idx - 1)
        lower(c) ==
            IF \E i \in DOMAIN UpperCase : UpperCase[i] = c
            THEN LowerCase[CHOOSE i \in DOMAIN UpperCase : UpperCase[i] = c]
            ELSE IF c \in Range(LowerCase) \cup Range(Digits) THEN c ELSE " "
        cleaned == Tuple([i \in DOMAIN flipped |-> lower(flipped[i])])
        kept == {i \in DOMAIN cleaned : ~(cleaned[i] = " " /\ i > 1 /\ cleaned[i - 1] = " ")}
        collapsed ==
            Tuple([k \in 1..Cardinality(kept) |->
                      cleaned[CHOOSE i \in kept : Cardinality({j \in kept : j < i}) = k - 1]])
    IN trim(collapsed)

\* the class labels a timing file or a start list carries, tested in the code's order:
\* "jv" or "jr" inside, a leading "p", "va" or "alt" inside, "v" or "varsity" inside
normalizeCompClass(raw) ==
    CASE raw \in {"JV", "jv", "Jr Varsity"} -> "Jr Varsity"
      [] raw \in {"P", "Provisional"} -> "Provisional"
      [] raw \in {"VA", "Varsity Alternate"} -> "Varsity Alternate"
      [] raw \in {"V", "Varsity"} -> "Varsity"
      [] OTHER -> "Unknown"

\* scoringClass that leaves Varsity Alternate a class of its own
scoringClassNoFold(cls) == normalizeCompClass(cls)

scoringClass(cls) ==
    LET n == normalizeCompClass(cls)
    IN IF n = "Varsity Alternate" THEN "Varsity" ELSE n

\* a leading "m" is Male, a leading "f" or "lad" inside is Female
normalizeGender(g) ==
    CASE g \in {"M", "Male", "Men"} -> "Male"
      [] g \in {"F", "Female", "Ladies"} -> "Female"
      [] OTHER -> "Unknown"

\* a run block of the file: absent, or its Status, MicroStart and MicroFinish numbers
NoRun == <<>>

RunBlock(status, microStart, microFinish) ==
    <<[status |-> status, microStart |-> microStart, microFinish |-> microFinish]>>

\* parseRun without the test that the finish is after the start
parseRunAnyOrder(block) ==
    IF block = NoRun THEN [status |-> 0, timeSec |-> Null]
    ELSE LET status == block[1].status
             hasTimes == block[1].microStart > 0 /\ block[1].microFinish > 0
         IN IF ~hasTimes THEN [status |-> 0, timeSec |-> Null]
            ELSE IF status # 1 THEN [status |-> status, timeSec |-> Null]
            ELSE [status |-> status, timeSec |-> block[1].microFinish - block[1].microStart]

\* timeSec is held in millionths of a second (the code divides by 1_000_000); Null is no time
parseRun(block) ==
    IF block = NoRun THEN [status |-> 0, timeSec |-> Null]
    ELSE LET status == block[1].status
             microStart == block[1].microStart
             microFinish == block[1].microFinish
             hasTimes == microStart > 0 /\ microFinish > 0
             finished == microFinish > microStart
             timeSec == microFinish - microStart
         IN IF ~hasTimes THEN [status |-> 0, timeSec |-> Null]
            ELSE IF status # 1 THEN [status |-> status, timeSec |-> Null]
            ELSE IF finished THEN [status |-> status, timeSec |-> timeSec]
            ELSE [status |-> 0, timeSec |-> Null]

\* a Comp block of the file
Comp(bib, name, team, cls, time1, time2) ==
    [bib |-> bib, name |-> name, team |-> team, class |-> cls, time1 |-> time1, time2 |-> time2]

\* a timing file: its CurrentSex and its Comp blocks in document order
Xml(sex, comps) == [sex |-> sex, comps |-> comps]

\* racerId Null and teamId "" stand for the fields a parsed entry does not have
parseComps(xml, fallbackGender) ==
    LET entry(c) ==
            [raceId |-> "", bib |-> c.bib, racerId |-> Null, racerName |-> trim(c.name),
             teamId |-> "", teamName |-> c.team, gender |-> fallbackGender,
             class |-> normalizeCompClass(c.class),
             run1 |-> parseRun(c.time1), run2 |-> parseRun(c.time2),
             run1Points |-> 0, run2Points |-> 0, totalPoints |-> 0]
        blocks == SelectSeq(xml.comps, LAMBDA c : c.bib > 0)
    IN Tuple([i \in DOMAIN blocks |-> entry(blocks[i])])

-----------------------------------------------------------------------------
\* Results: reconciliation with the start list, placement points, team scores

\* the k-th smallest member of a set of numbers
Nth(S, k) == CHOOSE i \in S : Cardinality({j \in S : j < i}) = k - 1

\* Array.prototype.sort: stable, ascending by the strict order Less
StableSort(s, Less(_, _)) ==
    LET pos == Tuple([i \in DOMAIN s |->
                         1 + Cardinality({j \in DOMAIN s :
                                            Less(s[j], s[i]) \/ (~Less(s[i], s[j]) /\ j < i)})])
    IN Tuple([k \in DOMAIN s |-> s[CHOOSE i \in DOMAIN s : pos[i] = k]])

\* the names the directories hold: Generate copies them into the start list
racerName(racerId) == <<"R", " ", Digits[(racerId \div 10) + 1], Digits[(racerId % 10) + 1]>>

\* the team names, in the order localeCompare gives them
TeamNames == <<"Alpha", "Bravo", "Charlie", "Delta">>

teamName(teamId) ==
    CASE teamId = "t1" -> TeamNames[1]
      [] teamId = "t2" -> TeamNames[2]
      [] teamId = "t3" -> TeamNames[3]
      [] teamId = "t4" -> TeamNames[4]

\* the teams the TEAMS table flags nonLeague
NonLeagueTeams == {"t3"}

\* getNonLeagueTeamIds that finds no team flagged
getNonLeagueNone(teamIds) == {}

getNonLeagueTeamIds(teamIds) == teamIds \cap NonLeagueTeams

getStartList(tbl, raceId) ==
    {[bib |-> i.bib, racerId |-> i.racerId, racerName |-> racerName(i.racerId),
      teamId |-> i.teamId, teamName |-> teamName(i.teamId),
      gender |-> normalizeGender(i.gender), class |-> normalizeCompClass(i.class)] :
        i \in {x \in tbl : x.raceId = raceId /\ x.bib > 0}}

scored(run) == run.status = 1 /\ run.timeSec # Null

runOf(e, runKey) == IF runKey = "run1" THEN e.run1 ELSE e.run2

\* competitionPoints with dense ranks: a finisher after a tie takes the next rank
competitionPointsDense(finishers, runKey) ==
    LET fin == {i \in DOMAIN finishers : scored(runOf(finishers[i], runKey))}
        time(i) == runOf(finishers[i], runKey).timeSec
        rank(i) == 1 + Cardinality({time(j) : j \in {x \in fin : time(x) < time(i)}})
        points(i) == IF rank(i) <= Len(ladder) THEN ladder[rank(i)] ELSE 0
    IN Tuple([i \in DOMAIN finishers |->
                IF i \notin fin THEN finishers[i]
                ELSE IF runKey = "run1" THEN [finishers[i] EXCEPT !.run1Points = points(i)]
                ELSE [finishers[i] EXCEPT !.run2Points = points(i)]])

\* the list with the run's points set on its finishers: ranked in ascending time,
\* a finisher with the time of the one before it takes that one's rank
competitionPoints(finishers, runKey) ==
    LET fin == {i \in DOMAIN finishers : scored(runOf(finishers[i], runKey))}
        time(i) == runOf(finishers[i], runKey).timeSec
        list == StableSort(Tuple([k \in 1..Cardinality(fin) |-> Nth(fin, k)]),
                           LAMBDA a, b : time(a) < time(b))
        rank[idx \in DOMAIN list] ==
            IF idx > 1 /\ time(list[idx]) = time(list[idx - 1]) THEN rank[idx - 1] ELSE idx
        points(idx) == IF rank[idx] <= Len(ladder) THEN ladder[rank[idx]] ELSE 0
        at(i) == points(CHOOSE idx \in DOMAIN list : list[idx] = i)
    IN Tuple([i \in DOMAIN finishers |->
                IF i \notin fin THEN finishers[i]
                ELSE IF runKey = "run1" THEN [finishers[i] EXCEPT !.run1Points = at(i)]
                ELSE [finishers[i] EXCEPT !.run2Points = at(i)]])

\* an issue of the submission (the code formats it as a line of text)
Issue(kind, bib, fileName, startName) ==
    [kind |-> kind, bib |-> bib, fileName |-> fileName, startName |-> startName]

\* merge that keeps the file's name when it differs from the start list's
mergeKeepFileName(p, startList, raceId) ==
    LET found == {sl \in startList : sl.bib = p.bib}
    IN IF found = {}
       THEN [entry |-> [p EXCEPT !.raceId = raceId],
             issues |-> <<Issue("not found", p.bib, p.racerName, <<>>)>>]
       ELSE LET sl == CHOOSE x \in found : TRUE
                differ == /\ normalizeName(p.racerName) # <<>>
                          /\ normalizeName(sl.racerName) # <<>>
                          /\ normalizeName(p.racerName) # normalizeName(sl.racerName)
            IN [entry |-> [p EXCEPT !.raceId = raceId, !.racerId = sl.racerId,
                                    !.racerName = IF differ THEN p.racerName ELSE sl.racerName,
                                    !.teamId = sl.teamId, !.teamName = sl.teamName,
                                    !.gender = sl.gender, !.class = sl.class],
                issues |-> IF differ
                           THEN <<Issue("name mismatch", p.bib, p.racerName, sl.racerName)>>
                           ELSE <<>>]

\* both names are non-empty once normalised, and they differ
namesDisagree(normFile, normStart) ==
    normFile # <<>> /\ normStart # <<>> /\ normFile # normStart

\* POST, the reconciliation of one parsed competitor: its entry and its issue, if any
merge(p, startList, raceId) ==
    LET found == {sl \in startList : sl.bib = p.bib}
    IN IF found = {}
       THEN [entry |-> [p EXCEPT !.raceId = raceId],
             issues |-> <<Issue("not found", p.bib, p.racerName, <<>>)>>]
       ELSE LET sl == CHOOSE x \in found : TRUE
            IN [entry |-> [p EXCEPT !.raceId = raceId, !.racerId = sl.racerId,
                                    !.racerName = sl.racerName, !.teamId = sl.teamId,
                                    !.teamName = sl.teamName, !.gender = sl.gender,
                                    !.class = sl.class],
                issues |-> IF namesDisagree(normalizeName(p.racerName),
                                            normalizeName(sl.racerName))
                           THEN <<Issue("name mismatch", p.bib, p.racerName, sl.racerName)>>
                           ELSE <<>>]

OrZero(points) == IF points = Null THEN 0 ELSE points

\* sort((a, b) => b.totalPoints - a.totalPoints || a.bib - b.bib)
byPointsThenBib(a, b) ==
    a.totalPoints > b.totalPoints \/ (a.totalPoints = b.totalPoints /\ a.bib < b.bib)

\* the first appearances of the values of key in a list, in the list's order
keysInOrder(list, key(_)) ==
    LET firsts == {i \in DOMAIN list : \A j \in 1..(i - 1) : key(list[j]) # key(list[i])}
    IN Tuple([k \in 1..Cardinality(firsts) |-> key(list[Nth(firsts, k)])])

\* the scores of one gender's teams: the entries labelled Varsity, by team; per run the
\* three fastest finishers; a total only with three; ranked by combined total, then name
\* the three fastest finishers of a run, as the contributions of a team
bestThree(finishers, runKey) ==
    Tuple([k \in 1..(IF Len(finishers) < 3 THEN Len(finishers) ELSE 3) |->
             [bib |-> finishers[k].bib, racerName |-> finishers[k].racerName,
              timeSec |-> runOf(finishers[k], runKey).timeSec]])

contribs(bucket, runKey) ==
    bestThree(StableSort(SelectSeq(bucket, LAMBDA e : scored(runOf(e, runKey))),
                         LAMBDA a, b : runOf(a, runKey).timeSec < runOf(b, runKey).timeSec),
              runKey)

runTotal(c) == IF Len(c) = 3 THEN c[1].timeSec + c[2].timeSec + c[3].timeSec ELSE Null

teamTimes(gender, teamId, name, run1Contribs, run2Contribs) ==
    LET run1Total == runTotal(run1Contribs)
        run2Total == runTotal(run2Contribs)
    IN [gender |-> gender, teamId |-> teamId, teamName |-> name,
        run1TotalSec |-> run1Total, run2TotalSec |-> run2Total,
        totalTimeSec |-> IF run1Total # Null /\ run2Total # Null
                         THEN run1Total + run2Total ELSE Null,
        run1Contribs |-> run1Contribs, run2Contribs |-> run2Contribs, points |-> 0]

score(gender, teamId, bucket) ==
    teamTimes(gender, teamId, bucket[1].teamName,
              contribs(bucket, "run1"), contribs(bucket, "run2"))

nameRank(name) == CHOOSE i \in DOMAIN TeamNames : TeamNames[i] = name

\* total time ascending, then team name; a missing total stands in for
\* Number.MAX_SAFE_INTEGER
before(a, b) ==
    IF a.totalTimeSec # Null /\ b.totalTimeSec # Null /\ a.totalTimeSec # b.totalTimeSec
    THEN a.totalTimeSec < b.totalTimeSec
    ELSE IF (a.totalTimeSec = Null) # (b.totalTimeSec = Null)
    THEN b.totalTimeSec = Null
    ELSE nameRank(a.teamName) < nameRank(b.teamName)

\* the distinct racers of a team in the pool, by racer id or else by bib
racerSet(pool, teamId) ==
    {IF e.racerId # Null THEN <<"racerId", e.racerId>> ELSE <<"bib", e.bib>> :
        e \in Range(SelectSeq(pool, LAMBDA x : x.teamId = teamId))}

\* the number of teams with at least three distinct racers
countTeams(eligible, pool) ==
    Cardinality({k \in DOMAIN eligible :
                   Cardinality(racerSet(pool, eligible[k].teamId)) >= 3})

\* points down the sorted teams: ties share a rank, a team without a total gets 0
awardPoints(eligible, teamCount) ==
    LET \* after team k: validSeen, prevTime, prevRank
        walk[k \in 0..Len(eligible)] ==
            IF k = 0 THEN [validSeen |-> 0, prevTime |-> Null, prevRank |-> 0]
            ELSE IF eligible[k].totalTimeSec = Null THEN walk[k - 1]
            ELSE LET validSeen == walk[k - 1].validSeen + 1
                     rank == IF walk[k - 1].prevTime # Null
                                /\ eligible[k].totalTimeSec = walk[k - 1].prevTime
                             THEN walk[k - 1].prevRank ELSE validSeen
                 IN [validSeen |-> validSeen, prevTime |-> eligible[k].totalTimeSec,
                     prevRank |-> rank]
        pts(k) ==
            IF eligible[k].totalTimeSec = Null THEN 0
            ELSE LET v == (teamCount * 2) - ((walk[k].prevRank - 1) * 2)
                 IN IF v > 0 THEN v ELSE 0
    IN Tuple([k \in DOMAIN eligible |-> [eligible[k] EXCEPT !.points = pts(k)]])

genderTeamScores(entries, gender) ==
    LET pool == SelectSeq(entries, LAMBDA e : e.class = "Varsity" /\ e.gender = gender)
        bucket(teamId) == SelectSeq(pool, LAMBDA e : e.teamId = teamId)
        teams == SelectSeq(keysInOrder(pool, LAMBDA e : e.teamId),
                           LAMBDA teamId : teamId # "")
        eligible == StableSort(Tuple([k \in DOMAIN teams |->
                                        score(gender, teams[k], bucket(teams[k]))]),
                               before)
    IN awardPoints(eligible, countTeams(eligible, pool))

computeTeamScores(entries) ==
    genderTeamScores(entries, "Female") \o genderTeamScores(entries, "Male")

\* the record an entry is stored and returned as
serializeEntries(e) ==
    [raceId |-> e.raceId, bib |-> e.bib, racerId |-> e.racerId, racerName |-> e.racerName,
     teamId |-> e.teamId, teamName |-> e.teamName, gender |-> e.gender, class |-> e.class,
     run1Status |-> e.run1.status, run2Status |-> e.run2.status,
     run1TimeSec |-> e.run1.timeSec, run2TimeSec |-> e.run2.timeSec,
     run1Points |-> e.run1Points, run2Points |-> e.run2Points, totalPoints |-> e.totalPoints]

\* saveResults without the deletion of the race's stored items
saveResultsKeep(tbl, raceId, entries, issues, teamScores) ==
    LET summary == [raceId |-> raceId, bib |-> 0, issues |-> issues, teamScores |-> teamScores]
        put[k \in 0..Len(entries)] ==
            IF k = 0 THEN {i \in tbl : ~(i.raceId = raceId /\ i.bib = 0)} \cup {summary}
            ELSE {i \in put[k - 1] : ~(i.raceId = raceId /\ i.bib = entries[k].bib)}
                    \cup {[serializeEntries(entries[k]) EXCEPT !.raceId = raceId]}
    IN put[Len(entries)]

\* every stored item of the race deleted by its bib, then the summary at bib 0 and the
\* entries put one after the other under (raceId, bib): a later Put of a bib replaces
saveResults(tbl, raceId, entries, issues, teamScores) ==
    LET cleared == {i \in tbl : i.raceId # raceId}
        summary == [raceId |-> raceId, bib |-> 0, issues |-> issues, teamScores |-> teamScores]
        put[k \in 0..Len(entries)] ==
            IF k = 0 THEN {summary}
            ELSE {i \in put[k - 1] : i.bib # entries[k].bib}
                    \cup {[serializeEntries(entries[k]) EXCEPT !.raceId = raceId]}
    IN cleared \cup put[Len(entries)]

\* the display groups: by (gender, scoring class), each sorted by points then bib,
\* the groups in the order Varsity, Jr Varsity, Provisional, women before men
buildGroups(entries) ==
    LET keyOf(e) == <<e.gender, scoringClass(e.class)>>
        byKey == keysInOrder(entries, keyOf)
        group(key) ==
            LET list == SelectSeq(entries, LAMBDA e : keyOf(e) = key)
            IN [gender |-> key[1], class |-> key[2],
                entries |-> StableSort(Tuple([k \in DOMAIN list |->
                                                [list[k] EXCEPT !.class = key[2]]]),
                                       byPointsThenBib)]
        rank(g) ==
            CASE g.gender = "Female" /\ g.class = "Varsity" -> 1
              [] g.gender = "Male" /\ g.class = "Varsity" -> 2
              [] g.gender = "Female" /\ g.class = "Jr Varsity" -> 3
              [] g.gender = "Male" /\ g.class = "Jr Varsity" -> 4
              [] g.gender = "Female" /\ g.class = "Provisional" -> 5
              [] g.gender = "Male" /\ g.class = "Provisional" -> 6
              [] OTHER -> 999
    IN StableSort(Tuple([k \in DOMAIN byKey |-> group(byKey[k])]),
                  LAMBDA a, b : rank(a) < rank(b))

\* the response of a results request that stored or returned nothing
NoResults(status, tbl) ==
    [status |-> status, results |-> tbl, entries |-> <<>>, issues |-> <<>>,
     groups |-> <<>>, teamScores |-> <<>>]

serializeGroups(groups) ==
    Tuple([k \in DOMAIN groups |->
              [groups[k] EXCEPT !.entries = Tuple([i \in DOMAIN groups[k].entries |->
                                                      serializeEntries(groups[k].entries[i])])]])

\* the merge loop of the POST handler: every parsed entry with the issues it raised
reconcile(parsed, startList, raceId) ==
    Tuple([i \in DOMAIN parsed |-> merge(parsed[i], startList, raceId)])

\* the issues of the merge loop, in file order
issuesIn(recon) ==
    LET withIssue == {i \in DOMAIN recon : recon[i].issues # <<>>}
    IN Tuple([k \in 1..Cardinality(withIssue) |-> recon[Nth(withIssue, k)].issues[1]])

\* the key of the group an entry is ranked in: gender and scoring class
groupKey(e) == <<e.gender, scoringClass(e.class)>>

\* the league entries grouped by gender and scoring class, each group with its
\* run 1 and run 2 placement points
rankGroups(merged, nonLeagueTeamIds) ==
    LET league(e) == e.teamId \notin nonLeagueTeamIds
        groupKeys == keysInOrder(SelectSeq(merged, league), groupKey)
        rankOne(key) ==
            LET list == SelectSeq(merged, LAMBDA e : league(e) /\ groupKey(e) = key)
                arr == Tuple([k \in DOMAIN list |-> [list[k] EXCEPT !.class = key[2]]])
            IN competitionPoints(competitionPoints(arr, "run1"), "run2")
    IN [keys |-> groupKeys,
        lists |-> Tuple([g \in DOMAIN groupKeys |-> rankOne(groupKeys[g])])]

\* an entry with the points of its group put back, its own class and gender kept
finalEntry(e, ranked) ==
    LET at == {g \in DOMAIN ranked.keys : ranked.keys[g] = groupKey(e)}
        list == IF at = {} THEN <<>> ELSE ranked.lists[Nth(at, 1)]
        hit == {k \in DOMAIN list : list[k].bib = e.bib}
        updated == IF hit = {} THEN e ELSE list[Nth(hit, 1)]
    IN [updated EXCEPT !.class = normalizeCompClass(e.class), !.gender = e.gender,
                       !.totalPoints = OrZero(updated.run1Points)
                                         + OrZero(updated.run2Points)]

\* all entries with their points, sorted by total points then bib
finalize(merged, ranked) ==
    StableSort(Tuple([i \in DOMAIN merged |-> finalEntry(merged[i], ranked)]),
               byPointsThenBib)

\* team scores, the save and the response of the POST handler
respond(tbl, raceId, finalEntries, issues, scoring, teamScores) ==
    [status |-> "ok",
     results |-> saveResults(tbl, raceId, finalEntries, issues, teamScores),
     entries |-> Tuple([i \in DOMAIN finalEntries |-> serializeEntries(finalEntries[i])]),
     issues |-> issues,
     groups |-> serializeGroups(buildGroups(scoring)),
     teamScores |-> teamScores]

\* the POST handler once the file is read and reconciled with the start list
settle(tbl, raceId, recon, nonLeagueTeamIds) ==
    LET merged == Tuple([i \in DOMAIN recon |-> recon[i].entry])
        finalEntries == finalize(merged, rankGroups(merged, nonLeagueTeamIds))
        scoring == SelectSeq(finalEntries, LAMBDA e : e.teamId \notin nonLeagueTeamIds)
    IN respond(tbl, raceId, finalEntries, issuesIn(recon), scoring,
               computeTeamScores(scoring))

\* POST /races/{raceId}/results
resultsPost(startTbl, tbl, raceId, body) ==
    IF body = NoBody THEN NoResults("BadRequest", tbl)
    ELSE LET startList == getStartList(startTbl, raceId)
             parsed == parseComps(body[1], normalizeGender(body[1].sex))
         IN settle(tbl, raceId, reconcile(parsed, startList, raceId),
                   getNonLeagueTeamIds({e.teamId : e \in startList}))

\* the stored entries of a race read back, sorted by points then bib, with its summary
loadResults(tbl, raceId) ==
    LET items == {i \in tbl : i.raceId = raceId}
        summary == {i \in items : i.bib = 0}
        stored == {i \in items : i.bib # 0}
        bibs == {i.bib : i \in stored}
        entry(i) ==
            [raceId |-> raceId, bib |-> i.bib, racerId |-> i.racerId, racerName |-> i.racerName,
             teamId |-> i.teamId, teamName |-> i.teamName,
             gender |-> normalizeGender(i.gender), class |-> normalizeCompClass(i.class),
             run1 |-> [status |-> i.run1Status, timeSec |-> i.run1TimeSec],
             run2 |-> [status |-> i.run2Status, timeSec |-> i.run2TimeSec],
             run1Points |-> OrZero(i.run1Points), run2Points |-> OrZero(i.run2Points),
             totalPoints |-> OrZero(i.totalPoints)]
        entries == Tuple([k \in 1..Cardinality(bibs) |->
                             entry(CHOOSE i \in stored : i.bib = Nth(bibs, k))])
    IN [entries |-> StableSort(entries, byPointsThenBib),
        issues |-> IF summary = {} THEN <<>> ELSE (CHOOSE i \in summary : TRUE).issues,
        teamScores |-> IF summary = {} THEN <<>> ELSE (CHOOSE i \in summary : TRUE).teamScores]

\* GET /races/{raceId}/results
resultsGet(tbl, raceId) ==
    LET res == loadResults(tbl, raceId)
        nonLeagueTeamIds == getNonLeagueTeamIds({res.entries[i].teamId : i \in DOMAIN res.entries})
        scoringEntries == SelectSeq(res.entries, LAMBDA e : e.teamId \notin nonLeagueTeamIds)
    IN [status |-> "ok", results |-> tbl,
        entries |-> Tuple([i \in DOMAIN res.entries |-> serializeEntries(res.entries[i])]),
        issues |-> res.issues,
        groups |-> serializeGroups(buildGroups(scoringEntries)),
        teamScores |-> res.teamScores]

-----------------------------------------------------------------------------
\* SpecResults: timing files submitted for races whose start list is drawn

MaxResultOps == 2

\* four teams, t3 flagged nonLeague; men's Varsity teams of three, an alternate in t1
ScoreTeams == SeedTeams \cup {"t4"}

ScoreRacers ==
    {Racer(41, "t1", "Male", "Varsity"), Racer(42, "t1", "Male", "Varsity"),
     Racer(43, "t1", "Male", "Varsity"), Racer(44, "t1", "Male", "Varsity Alternate"),
     Racer(45, "t1", "Female", "Varsity"),
     Racer(51, "t2", "Male", "Varsity"), Racer(52, "t2", "Male", "Varsity"),
     Racer(53, "t2", "Male", "Varsity"), Racer(54, "t2", "Male", "Jr Varsity"),
     Racer(61, "t3", "Male", "Varsity"), Racer(62, "t3", "Male", "Varsity"),
     Racer(63, "t3", "Male", "Varsity"),
     Racer(71, "t4", "Male", "Varsity"), Racer(72, "t4", "Male", "Varsity"),
     Racer(73, "t4", "Male", "Varsity")}

\* race1 with every racer on its team's roster, the teams entered one after the other
PreparedScore ==
    UNION {Replay(SeedRaces, {},
                  AddRequests("race1", {rc \in ScoreRacers : rc.teamId = teamId})) :
              teamId \in ScoreTeams}

ScoreDraw == <<"t1", "t2", "t3", "t4">>

\* race1's start list as Generate draws it; race2 has none
ScoreStartList ==
    startlistGenerate({}, PreparedScore, ScoreRacers, ScoreTeams, "race1", NoBody,
                      ScoreDraw).startlists

bibOf(racerId) == (CHOOSE i \in ScoreStartList : i.bib > 0 /\ i.racerId = racerId).bib

teamOf(racerId) == (CHOOSE rc \in ScoreRacers : rc.racerId = racerId).teamId

\* a run timed from 1.000000 s on, t millionths of a second long
Ran(t) == RunBlock(1, 1000000, 1000000 + t)

\* a run that started and did not finish (status 2)
Dnf == RunBlock(2, 1000000, 0)

\* a racer's block as the timing software writes it
CompOf(racerId, cls, time1, time2) ==
    Comp(bibOf(racerId), racerName(racerId), teamName(teamOf(racerId)), cls, time1, time2)

\* what a file may show for a racer: two fast runs, two slow runs, a first run only,
\* or no block at all
Outcomes == {"fast", "slow", "out", "absent"}

Shown(racerId, cls, outcome) ==
    CASE outcome = "fast" -> <<CompOf(racerId, cls, Ran(30000000), Ran(30000000))>>
      [] outcome = "slow" -> <<CompOf(racerId, cls, Ran(31000000), Ran(31000000))>>
      [] outcome = "out" -> <<CompOf(racerId, cls, Ran(30500000), Dnf)>>
      [] outcome = "absent" -> <<>>

\* a men's file of race1: the outcomes of racers 43, 44 (the alternate), 53 and 61 (non-league)
\* vary, the others are fixed
MenFile(o43, o44, o53, o61) ==
    Xml("M",
        <<CompOf(41, "V", Ran(30000000), Ran(30000000)),
          CompOf(42, "V", Ran(31000000), Ran(31000000))>>
        \o Shown(43, "V", o43)
        \o (IF o44 = "fast" THEN <<CompOf(44, "VA", Ran(29500000), Ran(29500000))>>
            ELSE Shown(44, "VA", o44))
        \o <<CompOf(51, "V", Ran(30000000), Ran(30000000)),
             CompOf(52, "V", Ran(31000000), Ran(31000000))>>
        \o Shown(53, "V", o53)
        \o <<CompOf(54, "JV", Ran(33000000), Ran(32000000))>>
        \o Shown(61, "V", o61)
        \o <<CompOf(62, "V", Ran(29000000), Ran(29000000)),
             CompOf(63, "V", Ran(29000000), Ran(29000000)),
             CompOf(71, "V", Ran(30000000), Ran(30000000)),
             CompOf(72, "V", Ran(31000000), Ran(31000000)),
             CompOf(73, "V", Ran(31000000), Ran(31000000))>>)

MenFiles ==
    {MenFile(o43, o44, o53, o61) :
        o43 \in {"fast", "out", "absent"}, o44 \in {"fast", "out", "absent"},
        o53 \in {"fast", "slow", "absent"}, o61 \in {"fast", "absent"}}

\* a file with reconciliation problems: a name that is not racer 41's, racer 42 written
\* "Last, First", a block with no name, two bibs no start list has, and a block with bib 0
MixedFile ==
    Xml("M",
        <<Comp(bibOf(41), <<"R", " ", "9", "9">>, teamName("t1"), "V",
               Ran(30000000), Ran(30000000)),
          Comp(bibOf(42), <<"4", "2", ",", " ", "r">>, teamName("t1"), "V",
               Ran(31000000), Ran(31000000)),
          Comp(bibOf(43), <<>>, teamName("t1"), "V", Ran(32000000), Ran(32000000)),
          Comp(900, <<"X", ".", "Y">>, "Zulu", "JV", Ran(28000000), Ran(28000000)),
          Comp(0, <<"N", "o">>, "Zulu", "V", Ran(27000000), Ran(27000000)),
          Comp(901, <<"Z", " ">>, "Zulu", "V", Ran(29000000), Dnf),
          CompOf(51, "V", Ran(30000000), Ran(33000000))>>)

\* a file whose run blocks take every shape parseRun tells apart
RunsFile ==
    Xml("M",
        <<CompOf(41, "V", RunBlock(1, 1000000, 1250000), RunBlock(1, 2000000, 1000000)),
          CompOf(42, "V", RunBlock(1, 0, 1250000), RunBlock(2, 1000000, 2000000)),
          CompOf(43, "V", NoRun, RunBlock(1, 1000000, 1000000)),
          CompOf(51, "V", RunBlock(0, 1000000, 2000000), RunBlock(1, 1000000, 0)),
          CompOf(52, "V", RunBlock(3, 0, 0), RunBlock(1, 1000000, 1250000)),
          CompOf(45, "V", RunBlock(1, 1000000, 31000000), NoRun)>>)

\* a women's file
WomenFile == Xml("F", <<CompOf(45, "V", Ran(35000000), Ran(36000000))>>)

\* a field larger than the ladder, of bibs no start list has: the first has no first run
\* and the times of the others all differ; threes share a time in the second run
MaxField == 32

BigFile ==
    Xml("M", Tuple([i \in 1..MaxField |->
                      Comp(200 + i, <<"X">>, "Zulu", "V",
                           IF i = 1 THEN NoRun ELSE Ran(30000000 + (i * 100000)),
                           Ran(30000000 + (((i + 2) \div 3) * 100000)))]))

EmptyFile == Xml("M", <<>>)

ResultFiles == MenFiles \cup {MixedFile, RunsFile, WomenFile, BigFile, EmptyFile}

InitResults ==
    /\ races = SeedRaces
    /\ racers = ScoreRacers
    /\ rosters = PreparedScore
    /\ startlists = ScoreStartList
    /\ results = {}
    /\ last = NoRequest
    /\ drawn = [NoDraw EXCEPT !["race1"] = ScoreDraw]
    /\ calls = NoCalls
    /\ steps = MaxResultOps

\* POST /races/{raceId}/results
postAnswer(raceId, body, res) ==
    [op |-> "results_post", status |-> res.status, branch |-> raceId, body |-> body,
     entries |-> res.entries, issues |-> res.issues, groups |-> res.groups,
     teamScores |-> res.teamScores]

Submit ==
    \E raceId \in RaceIds, body \in {NoBody} \cup {Body(xml) : xml \in ResultFiles} :
        LET res == resultsPost(startlists, results, raceId, body)
        IN /\ steps > 0
           /\ steps' = steps - 1
           /\ results' = res.results
           /\ last' = postAnswer(raceId, body, res)
           /\ UNCHANGED <<races, racers, rosters, startlists, drawn, calls>>

\* GET /races/{raceId}/results
FetchResults ==
    \E raceId \in RaceIds :
        LET res == resultsGet(results, raceId)
        IN /\ steps > 0
           /\ steps' = steps - 1
           /\ last' = [op |-> "results_get", status |-> res.status, branch |-> raceId,
                       body |-> NoBody, entries |-> res.entries, issues |-> res.issues,
                       groups |-> res.groups, teamScores |-> res.teamScores]
           /\ UNCHANGED <<races, racers, rosters, startlists, results, drawn, calls>>

NextResults ==
    \/ Submit
    \/ FetchResults

SpecResults == InitResults /\ [][NextResults]_vars

-----------------------------------------------------------------------------
\* Results: what a submission answers and stores

\* the last request was a submission that went through
Submitted == last.op = "results_post" /\ last.status = "ok"

\* the Comp blocks of the submitted file that carry a bib
Comps == SelectSeq(last.body[1].comps, LAMBDA c : c.bib > 0)

\* the entry the response carries for a bib
EntryOf(bib) == CHOOSE e \in Range(last.entries) : e.bib = bib

\* a run block with status 1, a positive start and a positive finish after the start
Timed(block) ==
    /\ block # NoRun
    /\ block[1].status = 1
    /\ block[1].microStart > 0
    /\ block[1].microFinish > 0
    /\ block[1].microFinish > block[1].microStart

\* the run of an entry scored as the block says, or not scored at all
RunAsTimed(block, status, timeSec, points) ==
    IF Timed(block)
    THEN status = 1 /\ timeSec = block[1].microFinish - block[1].microStart
    ELSE status # 1 /\ timeSec = Null /\ OrZero(points) = 0

\* C22: a run is scored, with status 1 and the elapsed time finish - start (held in
\* millionths of a second), exactly when its block has status 1, a positive start and a
\* positive finish after the start; any other run has no time and earns no points.
C22_RunScored ==
    Submitted =>
        \A i \in DOMAIN Comps :
            LET c == Comps[i]
                e == EntryOf(c.bib)
            IN /\ RunAsTimed(c.time1, e.run1Status, e.run1TimeSec, e.run1Points)
               /\ RunAsTimed(c.time2, e.run2Status, e.run2TimeSec, e.run2Points)

\* a submission with a run from 1,000,000 to 1,250,000 scored as 0.25 s, a run that
\* finished before it started and a run with a status other than 1
C22_Witness ==
    /\ Submitted
    /\ \E i \in DOMAIN Comps :
            /\ Comps[i].time1 = RunBlock(1, 1000000, 1250000)
            /\ EntryOf(Comps[i].bib).run1TimeSec = 250000
            /\ EntryOf(Comps[i].bib).run1Status = 1
            /\ Comps[i].time2 = RunBlock(1, 2000000, 1000000)
            /\ EntryOf(Comps[i].bib).run2TimeSec = Null
    /\ \E i \in DOMAIN Comps :
            /\ Comps[i].time2 = RunBlock(2, 1000000, 2000000)
            /\ EntryOf(Comps[i].bib).run2Status = 2

\* an entry of a team that is not flagged nonLeague
League(e) == e.teamId \notin NonLeagueTeams

\* the league entries of the response ranked with e: same gender, same scoring class
Peers(e) ==
    {x \in Range(last.entries) :
        League(x) /\ x.gender = e.gender /\ scoringClass(x.class) = scoringClass(e.class)}

\* the points of a rank: the rank-th step of the ladder, nothing below the ladder
LadderPoints(rank) == IF rank <= 30 THEN ladder[rank] ELSE 0

\* a run's points by competition ranking among the scored times of the group
PlacePoints(time, times) ==
    IF time = Null THEN 0
    ELSE LadderPoints(1 + Cardinality({x \in times : x[2] # Null /\ x[2] < time}))

\* C23: in each (gender, scoring class) group and each run a league entry's points are
\* the ladder's entry (100, 80, 60, 50, ..., 1) at its rank, 1 + the number of scored
\* entries of the group with a strictly smaller time; 0 past rank 30 and for an unscored run.
C23_CompetitionPoints ==
    /\ Len(ladder) = 30
    /\ SubSeq(ladder, 1, 4) = <<100, 80, 60, 50>>
    /\ ladder[30] = 1
    /\ Submitted =>
        \A e \in Range(last.entries) :
            League(e) =>
                /\ e.run1Points = PlacePoints(e.run1TimeSec,
                                              {<<x.bib, x.run1TimeSec>> : x \in Peers(e)})
                /\ e.run2Points = PlacePoints(e.run2TimeSec,
                                              {<<x.bib, x.run2TimeSec>> : x \in Peers(e)})

\* a submission where three entries share the best time of a run (100 points each) and the
\* next takes rank 4 (50 points), an entry is past rank 30 and another has an unscored run
C23_Witness ==
    /\ Submitted
    /\ \E e \in Range(last.entries) :
            /\ League(e)
            /\ e.run2Points = 50
            /\ Cardinality({x \in Peers(e) : x.run2Points = 100}) = 3
    /\ \E e \in Range(last.entries) :
            /\ League(e)
            /\ e.run1TimeSec # Null
            /\ e.run1Points = 0
            /\ Cardinality({x \in Peers(e) : x.run1TimeSec # Null
                                             /\ x.run1TimeSec < e.run1TimeSec}) >= 30
    /\ \E e \in Range(last.entries) : League(e) /\ e.run1TimeSec = Null /\ e.run1Points = 0

\* the start-list item of the submitted race at a bib, if any
StartItems(bib) == {i \in startlists : i.raceId = last.branch /\ i.bib = bib /\ bib > 0}

\* the league entries of the response of e's gender labelled Varsity or Varsity Alternate
VarsityField(e) ==
    {x \in Range(last.entries) :
        League(x) /\ x.gender = e.gender /\ x.class \in {"Varsity", "Varsity Alternate"}}

\* C24: Varsity Alternate entries are ranked together with the Varsity entries of their
\* gender, and every entry found in the start list is returned and stored with the class
\* label of the start list (an alternate stays Varsity Alternate).
C24_AlternateRankedAsVarsity ==
    Submitted =>
        \A e \in Range(last.entries) :
            /\ \A i \in StartItems(e.bib) :
                    /\ e.class = i.class
                    /\ \E r \in results :
                            r.raceId = last.branch /\ r.bib = e.bib /\ r.class = i.class
            /\ (League(e) /\ e.class \in {"Varsity", "Varsity Alternate"}) =>
                    /\ e.run1Points =
                         PlacePoints(e.run1TimeSec,
                                     {<<x.bib, x.run1TimeSec>> : x \in VarsityField(e)})
                    /\ e.run2Points =
                         PlacePoints(e.run2TimeSec,
                                     {<<x.bib, x.run2TimeSec>> : x \in VarsityField(e)})

\* a submission where an alternate wins a run and a Varsity racer is second behind it
C24_Witness ==
    /\ Submitted
    /\ \E a \in Range(last.entries), v \in Range(last.entries) :
            /\ a.class = "Varsity Alternate"
            /\ StartItems(a.bib) # {}
            /\ a.run1Points = 100
            /\ v.class = "Varsity"
            /\ v \in VarsityField(a)
            /\ v.run1TimeSec > a.run1TimeSec
            /\ v.run1Points = 80

-----------------------------------------------------------------------------
\* Results: team scores

\* the league entries of the response that score for a team score's team: its gender,
\* its team, labelled Varsity or Varsity Alternate
TeamField(ts) ==
    {x \in Range(last.entries) :
        /\ League(x) /\ x.gender = ts.gender /\ x.teamId = ts.teamId
        /\ x.class \in {"Varsity", "Varsity Alternate"}}

\* the (gender, team) pairs with an entry that scores for a team
ScoringTeams ==
    {<<x.gender, x.teamId>> : x \in {e \in Range(last.entries) :
        /\ League(e) /\ e.teamId # "" /\ e.gender \in {"Female", "Male"}
        /\ e.class \in {"Varsity", "Varsity Alternate"}}}

\* the scored times of a run among a set of entries, each with its bib
Run1Times(field) == {<<x.bib, x.run1TimeSec>> : x \in {e \in field : e.run1TimeSec # Null}}
Run2Times(field) == {<<x.bib, x.run2TimeSec>> : x \in {e \in field : e.run2TimeSec # Null}}

\* the times that are surely among the three smallest: fewer than three others are as small
SureBest(times) ==
    {t \in times : Cardinality({u \in times : u # t /\ u[2] <= t[2]}) < 3}

Bibs(cs) == {cs[k].bib : k \in DOMAIN cs}

\* C25: team scoring takes every league entry labelled Varsity or Varsity Alternate, by
\* (gender, team): each such team has a score, and a scored run time that is among the
\* three fastest of these entries, an alternate's included, is one of the run's contributions.
C25_AlternateInTeamScore ==
    Submitted =>
        /\ ScoringTeams = {<<last.teamScores[k].gender, last.teamScores[k].teamId>> :
                              k \in DOMAIN last.teamScores}
        /\ \A k \in DOMAIN last.teamScores :
            LET ts == last.teamScores[k]
            IN /\ {t[1] : t \in SureBest(Run1Times(TeamField(ts)))} \subseteq Bibs(ts.run1Contribs)
               /\ {t[1] : t \in SureBest(Run2Times(TeamField(ts)))} \subseteq Bibs(ts.run2Contribs)

\* the sum of the times of a set of (bib, time) pairs
RECURSIVE SumTimes(_)
SumTimes(times) ==
    IF times = {} THEN 0
    ELSE LET t == CHOOSE x \in times : TRUE IN t[2] + SumTimes(times \ {t})

\* the three smallest times (ties taken by bib), or all of them if there are fewer
Best3(times) ==
    {t \in times :
        Cardinality({u \in times : u[2] < t[2] \/ (u[2] = t[2] /\ u[1] < t[1])}) < 3}

\* the run total of a team: the sum of its three smallest scored times, or no total
RunTotal(times) == IF Cardinality(times) >= 3 THEN SumTimes(Best3(times)) ELSE Null

\* C26: a team's run total is the sum of the three smallest scored times of its
\* scoring-class racers and undefined with fewer than three; its combined total is the sum
\* of both run totals, undefined unless both are defined; no combined total, no team points.
C26_TeamTotals ==
    Submitted =>
        \A k \in DOMAIN last.teamScores :
            LET ts == last.teamScores[k]
                run1Total == RunTotal(Run1Times(TeamField(ts)))
                run2Total == RunTotal(Run2Times(TeamField(ts)))
            IN /\ ts.run1TotalSec = run1Total
               /\ ts.run2TotalSec = run2Total
               /\ ts.totalTimeSec = IF run1Total # Null /\ run2Total # Null
                                    THEN run1Total + run2Total ELSE Null
               /\ ts.totalTimeSec = Null => ts.points = 0

\* the team scores of the response of one gender, by their place in the list
OfGender(gender) == {k \in DOMAIN last.teamScores : last.teamScores[k].gender = gender}

\* T: the teams of a gender with at least three scoring-class racers among the entries
TeamCount(gender) ==
    Cardinality({k \in OfGender(gender) : Cardinality(TeamField(last.teamScores[k])) >= 3})

\* C27: within a gender the teams with a combined total are ranked by it in ascending
\* order, equal totals sharing a rank, and get max(0, 2*T - 2*(rank - 1)) points, T the
\* number of the gender's teams with at least three scoring-class racers; the teams with
\* no combined total come last with 0 points.
C27_TeamPoints ==
    Submitted =>
        \A k \in DOMAIN last.teamScores :
            LET ts == last.teamScores[k]
                faster == {j \in OfGender(ts.gender) :
                             /\ last.teamScores[j].totalTimeSec # Null
                             /\ last.teamScores[j].totalTimeSec < ts.totalTimeSec}
                pts == (2 * TeamCount(ts.gender)) - (2 * Cardinality(faster))
            IN IF ts.totalTimeSec = Null
               THEN /\ ts.points = 0
                    /\ \A j \in OfGender(ts.gender) :
                            j > k => last.teamScores[j].totalTimeSec = Null
               ELSE ts.points = IF pts > 0 THEN pts ELSE 0

-----------------------------------------------------------------------------
\* Results: reconciliation problems, stored records, non-league teams

\* the issues of the response that name a bib
IssuesOf(bib) == {k \in DOMAIN last.issues : last.issues[k].bib = bib}

\* the file's name and the start list's name of a racer differ once normalised
NamesDiffer(fileName, racerId) ==
    /\ normalizeName(fileName) # <<>>
    /\ normalizeName(racerName(racerId)) # <<>>
    /\ normalizeName(fileName) # normalizeName(racerName(racerId))

\* C28: a submission with a file is never refused. A block whose bib is not in the start
\* list is kept with the file's name, team label and class and adds exactly one issue
\* naming the bib; a block whose bib is in the start list takes the start list's racer,
\* team, gender and class, with one issue if the names differ and none otherwise; every
\* block's entry is scored from its run blocks and stored as returned.
C28_ReconciliationKeepsAll ==
    (last.op = "results_post" /\ last.body # NoBody) =>
        /\ last.status = "ok"
        /\ Len(last.entries) = Len(Comps)
        /\ \A i \in DOMAIN Comps :
            LET c == Comps[i]
                e == EntryOf(c.bib)
            IN /\ e \in results
               /\ RunAsTimed(c.time1, e.run1Status, e.run1TimeSec, e.run1Points)
               /\ RunAsTimed(c.time2, e.run2Status, e.run2TimeSec, e.run2Points)
               /\ IF StartItems(c.bib) = {}
                  THEN /\ e.racerId = Null
                       /\ e.racerName = trim(c.name)
                       /\ e.teamName = c.team
                       /\ e.class = normalizeCompClass(c.class)
                       /\ Cardinality(IssuesOf(c.bib)) = 1
                       /\ \A k \in IssuesOf(c.bib) : last.issues[k].kind = "not found"
                  ELSE \A sl \in StartItems(c.bib) :
                       /\ e.racerId = sl.racerId
                       /\ e.racerName = racerName(sl.racerId)
                       /\ e.teamId = sl.teamId
                       /\ e.teamName = teamName(sl.teamId)
                       /\ e.gender = sl.gender
                       /\ e.class = sl.class
                       /\ Cardinality(IssuesOf(c.bib))
                            = IF NamesDiffer(c.name, sl.racerId) THEN 1 ELSE 0
                       /\ \A k \in IssuesOf(c.bib) : last.issues[k].kind = "name mismatch"

\* a submission with a bib no start list has (one issue, the file's name kept), a matched
\* bib under another name (one issue, the start list's name, points for the run) and a
\* matched bib without an issue
C28_Witness ==
    /\ Submitted
    /\ \E i \in DOMAIN Comps :
            /\ StartItems(Comps[i].bib) = {}
            /\ Cardinality(IssuesOf(Comps[i].bib)) = 1
            /\ EntryOf(Comps[i].bib).racerName = trim(Comps[i].name)
            /\ EntryOf(Comps[i].bib).run1Points > 0
    /\ \E i \in DOMAIN Comps :
            /\ StartItems(Comps[i].bib) # {}
            /\ Cardinality(IssuesOf(Comps[i].bib)) = 1
            /\ EntryOf(Comps[i].bib).racerName # Comps[i].name
            /\ EntryOf(Comps[i].bib).run1Points > 0
    /\ \E i \in DOMAIN Comps :
            /\ StartItems(Comps[i].bib) # {}
            /\ IssuesOf(Comps[i].bib) = {}
            /\ EntryOf(Comps[i].bib) \in results

\* the stored items of the submitted race
Stored == {r \in results : r.raceId = last.branch}

\* C29: after a submission the stored items of the race are one summary at bib 0 with
\* the issues and the team scores of the response, and one record per competitor of the
\* file, the one the response carries; nothing else is stored for the race, and a record's
\* total points are its run-1 points plus its run-2 points.
C29_ResultsReplaced ==
    Submitted =>
        /\ {r \in Stored : r.bib = 0}
             = {[raceId |-> last.branch, bib |-> 0, issues |-> last.issues,
                 teamScores |-> last.teamScores]}
        /\ {r \in Stored : r.bib # 0} = Range(last.entries)
        /\ {r.bib : r \in {x \in Stored : x.bib # 0}} = {Comps[i].bib : i \in DOMAIN Comps}
        /\ Cardinality(Stored) = 1 + Len(Comps)
        /\ \A r \in Stored : r.bib # 0 => r.totalPoints = r.run1Points + r.run2Points

\* a second request, a submission of a file with one competitor: a summary and one
\* record with the points of both runs
C29_Witness ==
    /\ Submitted
    /\ steps = MaxResultOps - 2
    /\ Len(Comps) = 1
    /\ Cardinality(Stored) = 2
    /\ \E r \in Stored : r.bib # 0 /\ r.run1Points = 100 /\ r.totalPoints = 200

\* the last request was a submission or a fetch of results that went through
Answered == last.op \in {"results_post", "results_get"} /\ last.status = "ok"

\* the bibs the display groups of the response show
GroupedBibs ==
    UNION {{last.groups[g].entries[i].bib : i \in DOMAIN last.groups[g].entries} :
              g \in DOMAIN last.groups}

\* C30: a competitor of a non-league team is in the entry list of the response, with no
\* points; it is in no display group and its team has no team score; and a league
\* competitor's points are those of its rank among the league competitors alone.
C30_NonLeagueNotScored ==
    /\ Submitted =>
        \A i \in DOMAIN Comps :
            \A sl \in StartItems(Comps[i].bib) :
                sl.teamId \in NonLeagueTeams =>
                    \E e \in Range(last.entries) : e.bib = sl.bib /\ e.teamId = sl.teamId
    /\ Answered =>
        \A e \in Range(last.entries) :
            IF League(e)
            THEN /\ e.run1Points = PlacePoints(e.run1TimeSec,
                                               {<<x.bib, x.run1TimeSec>> : x \in Peers(e)})
                 /\ e.run2Points = PlacePoints(e.run2TimeSec,
                                               {<<x.bib, x.run2TimeSec>> : x \in Peers(e)})
            ELSE /\ e.run1Points = 0 /\ e.run2Points = 0 /\ e.totalPoints = 0
                 /\ e.bib \notin GroupedBibs
                 /\ \A k \in DOMAIN last.teamScores : last.teamScores[k].teamId # e.teamId

\* a submission where the fastest run is a non-league competitor's: it has no points and
\* the fastest league competitor of its gender and scoring class has the 100
C30_Witness ==
    /\ Submitted
    /\ \E n \in Range(last.entries), e \in Range(last.entries) :
            /\ ~League(n)
            /\ n.run1TimeSec # Null
            /\ n.run1Points = 0
            /\ League(e)
            /\ e.gender = n.gender
            /\ scoringClass(e.class) = scoringClass(n.class)
            /\ e.run1TimeSec > n.run1TimeSec
            /\ e.run1Points = 100
            /\ e.bib \in GroupedBibs

-----------------------------------------------------------------------------
\* Generate: bibs of the two genders

\* C37: the entries a Generate answers with carry pairwise distinct bibs, and the race
\* stores as many entries as the call produced.
C37_BibsDistinct ==
    Generated =>
        /\ \A i, j \in DOMAIN last.entries :
               i # j => last.entries[i].bib # last.entries[j].bib
        /\ Cardinality({x \in startlists : x.raceId = last.branch /\ x.bib > 0})
             = Len(last.entries)

-----------------------------------------------------------------------------
\* SpecEmit: Generate over rosters with a DNS entry, a Varsity Alternate and a racer
\* entered twice

\* requests served in one behaviour of SpecEmit
MaxEmitOps == 2

\* race1: every racer added, racer 12 made Varsity Alternate, racer 23 marked DNS, and
\* racer 13 (Varsity) added a second time as Jr Varsity
PreparedEmit ==
    Replay(SeedRaces, PreparedStart,
           <<PatchReq("race1", "t1", 12, "Varsity Alternate"),
             PatchReq("race1", "t2", 23, "DNS"),
             AddReq("race1", "t1", 13, "Male", "Varsity", "Jr Varsity")>>)

InitEmit ==
    /\ races = SeedRaces
    /\ racers = StartRacers
    /\ rosters = PreparedEmit
    /\ startlists = {}
    /\ results = {}
    /\ last = NoRequest
    /\ drawn = NoDraw
    /\ calls = NoCalls
    /\ steps = MaxEmitOps

NextEmit ==
    \/ Generate
    \/ DeleteRacer

SpecEmit == InitEmit /\ [][NextEmit]_vars

\* every bucket of the race, in the teams of the directory, has startOrders 1..N
RaceContiguous(raceId) ==
    \A teamId \in SeedTeams, gender \in Genders, cls \in RacerClass \ {"DNS"} :
        LET b == Bucket(raceId, teamId, gender, cls)
        IN /\ {e.startOrder : e \in b} = 1..Cardinality(b)
           /\ \A e1, e2 \in b : e1.startOrder = e2.startOrder => e1 = e2

\* C38: on rosters with contiguous buckets a Generate emits every roster entry of a
\* racing class whose racer is in its team's directory exactly once, with the entry's
\* gender and class; it emits nothing else, no DNS entry, and no racer twice.
C38_EmitsRoster ==
    (Generated /\ RaceContiguous(last.branch))
      => /\ \A e \in Seeded(last.branch) :
                Listed(e.teamId, e.racerId)
                  => Cardinality({i \in DOMAIN last.entries :
                                    Emits(last.entries[i], e)}) = 1
         /\ \A i \in DOMAIN last.entries :
                /\ last.entries[i].class # "DNS"
                /\ \E e \in Seeded(last.branch) : Emits(last.entries[i], e)
         /\ \A i, j \in DOMAIN last.entries :
                i # j => last.entries[i].racerId # last.entries[j].racerId

-----------------------------------------------------------------------------
\* Move and the opposite Move

Opposite(direction) == IF direction = "up" THEN "down" ELSE "up"

\* the moves a client can ask for: an entry of a racing class a request resolves to, on
\* an unlocked race
AnyMoves ==
    {<<raceId, entry>> \in ExistingRaces \X rosters :
        /\ ~Locked(raceId)
        /\ entry.class # "DNS"
        /\ \E rc \in racers : entry \in Resolved(raceId, rc.teamId, rc.racerId)}

\* Move(entry, direction) and then Move(entry, opposite direction): whether the first
\* changed the roster, and whether the second brought the table back
ThereAndBack(raceId, entry, direction) ==
    LET there == rosterRouter(races, rosters,
                     MoveReq(raceId, entry.teamId, entry.racerId, direction))
        back == rosterRouter(races, there.rosters,
                    MoveReq(raceId, entry.teamId, entry.racerId, Opposite(direction)))
    IN [changed |-> there.status = "ok" /\ there.rosters # rosters,
        restored |-> back.status = "ok" /\ back.rosters = rosters]

\* case c without an alternate, with other Jr Varsity entries: the bucket is compacted
Compacts(raceId, entry, direction) ==
    /\ entry.class = "Jr Varsity" /\ direction = "up" /\ entry.startOrder = 1
    /\ Bucket(raceId, entry.teamId, entry.gender, "Varsity Alternate") = {}
    /\ Bucket(raceId, entry.teamId, entry.gender, "Jr Varsity") # {entry}

\* case d with an alternate, the last Varsity entry not at slot 5
SwapsBelowCap(raceId, entry, direction) ==
    /\ entry.class = "Varsity" /\ direction = "down"
    /\ \A o \in Bucket(raceId, entry.teamId, entry.gender, "Varsity") :
           o.startOrder <= entry.startOrder
    /\ Bucket(raceId, entry.teamId, entry.gender, "Varsity Alternate") # {}
    /\ entry.startOrder # CAP.Varsity

-----------------------------------------------------------------------------
\* SpecMoves: moves, reclassifications and removals on a roster with full buckets

\* requests served in one behaviour of SpecMoves
MaxMoveOps == 2

\* a team with five Varsity men, their alternate, two Jr Varsity men and two women
LineRacers ==
    {Racer(1, "t1", "Male", "Varsity"), Racer(2, "t1", "Male", "Varsity"),
     Racer(3, "t1", "Male", "Varsity"), Racer(4, "t1", "Male", "Varsity"),
     Racer(5, "t1", "Male", "Varsity"), Racer(6, "t1", "Male", "Varsity Alternate"),
     Racer(7, "t1", "Male", "Jr Varsity"), Racer(8, "t1", "Male", "Jr Varsity"),
     Racer(9, "t1", "Female", "Varsity"), Racer(10, "t1", "Female", "Jr Varsity")}

\* race1 with every racer of the team on its roster, in its base class
PreparedLine == Replay(SeedRaces, {}, AddRequests("race1", LineRacers))

InitMoves ==
    /\ races = SeedRaces
    /\ racers = LineRacers
    /\ rosters = PreparedLine
    /\ startlists = {}
    /\ results = {}
    /\ last = NoRequest
    /\ drawn = NoDraw
    /\ calls = NoCalls
    /\ steps = MaxMoveOps

NextMoves ==
    \/ Reclassify
    \/ Remove
    \/ Move

SpecMoves == InitMoves /\ [][NextMoves]_vars

-----------------------------------------------------------------------------
\* Reclassify and Move keep the racers of a roster

\* the entries a reclassification can be asked for: the entry a request resolves to,
\* on an unlocked race
AnyRostered ==
    {<<raceId, entry>> \in ExistingRaces \X rosters :
        /\ ~Locked(raceId)
        /\ \E rc \in racers : entry \in Resolved(raceId, rc.teamId, rc.racerId)}

RacerGenders(S) == {<<e.racerId, e.gender>> : e \in S}

Once(S) == \A a, b \in S : a.racerId = b.racerId => a = b

\* the answer res to a request about entry leaves the (race, team) roster with the same
\* racers, each once and of the same gender, the other gender's entries as they were,
\* and every other roster as it was
KeepsRacers(raceId, entry, res) ==
    LET was == TeamRoster(raceId, entry.teamId)
        now == {e \in res.rosters : e.raceId = raceId /\ e.teamId = entry.teamId}
    IN /\ RacerGenders(now) = RacerGenders(was)
       /\ Once(now)
       /\ {e \in now : e.gender # entry.gender} = {e \in was : e.gender # entry.gender}
       /\ res.rosters \ now = rosters \ was

\* Jr Varsity #1 moving up with no Varsity Alternate of its gender
PromotesAlone(raceId, entry, direction) ==
    /\ entry.class = "Jr Varsity" /\ direction = "up" /\ entry.startOrder = 1
    /\ Bucket(raceId, entry.teamId, entry.gender, "Varsity Alternate") = {}

\* the racers other than the mover whose entry the answer res changed
OthersChanged(raceId, entry, res) ==
    {e.racerId : e \in TeamRoster(raceId, entry.teamId) \ res.rosters} \ {entry.racerId}

\* a Move changes the mover and at most one partner, or, promoting Jr Varsity #1 with
\* no alternate, the mover and entries of its Jr Varsity bucket
MoveFrame(raceId, entry, direction, res) ==
    LET others == OthersChanged(raceId, entry, res)
    IN \/ Cardinality(others) <= 1
       \/ /\ PromotesAlone(raceId, entry, direction)
          /\ others \subseteq
                {e.racerId : e \in Bucket(raceId, entry.teamId, entry.gender, "Jr Varsity")}

\* C40: a successful Reclassify or Move leaves the (race, team) roster with exactly the
\* same racer ids, each with the same gender and exactly once; entries of the other
\* gender and of other rosters are untouched, and a Move changes at most the mover, one
\* partner and (Jr Varsity #1 promoted with no alternate) the shifted Jr Varsity entries.
C40_KeepsRacers ==
    /\ \A m \in AnyRostered, newClass \in InputRacerClass :
           LET res == rosterRouter(races, rosters,
                          PatchReq(m[1], m[2].teamId, m[2].racerId, newClass))
           IN res.status = "ok" => KeepsRacers(m[1], m[2], res)
    /\ \A m \in AnyMoves, direction \in Directions :
           LET res == rosterRouter(races, rosters,
                          MoveReq(m[1], m[2].teamId, m[2].racerId, direction))
           IN res.status = "ok" =>
                /\ KeepsRacers(m[1], m[2], res)
                /\ MoveFrame(m[1], m[2], direction, res)

\* a reclassification to DNS was served, and from here a promotion of Jr Varsity #1
\* with no alternate shifts the rest of its bucket, a swap changes two entries, and a
\* reclassification changes the roster
C40_Witness ==
    /\ last.op = "patch" /\ last.status = "ok"
    /\ \E m \in AnyMoves :
           LET res == rosterRouter(races, rosters,
                          MoveReq(m[1], m[2].teamId, m[2].racerId, "up"))
           IN /\ PromotesAlone(m[1], m[2], "up")
              /\ res.status = "ok"
              /\ OthersChanged(m[1], m[2], res) # {}
    /\ \E m \in AnyMoves :
           LET res == rosterRouter(races, rosters,
                          MoveReq(m[1], m[2].teamId, m[2].racerId, "down"))
           IN res.branch = "swapped" /\ Cardinality(OthersChanged(m[1], m[2], res)) = 1
    /\ \E m \in AnyRostered :
           LET res == rosterRouter(races, rosters,
                          PatchReq(m[1], m[2].teamId, m[2].racerId, "Jr Varsity"))
           IN res.status = "ok" /\ res.rosters # rosters

-----------------------------------------------------------------------------
\* What a mutating request answers and what the next fetch returns

\* the mutating roster requests a client can send for the races and racers on record
RosterRequests ==
    LET ids == {r.raceId : r \in races}
    IN UNION {
        {AddReq(raceId, rc.teamId, rc.racerId, rc.gender, rc.class, desiredClass) :
            desiredClass \in InputRacerClass \cup {None}}
        \cup {PatchReq(raceId, rc.teamId, rc.racerId, newClass) :
            newClass \in InputRacerClass}
        \cup {DeleteReq(raceId, rc.teamId, rc.racerId)}
        \cup {MoveReq(raceId, rc.teamId, rc.racerId, direction) : direction \in Directions}
        \cup {CopyReq(raceId, rc.teamId, fromRaceId) : fromRaceId \in ids}
        : raceId \in ids, rc \in racers}

\* the roster a successful mutating request answers with is the roster a fetch then finds
RosterSnapshot ==
    \A req \in RosterRequests :
        LET res == rosterRouter(races, rosters, req)
        IN res.status = "ok" => res.body = getRoster(res.rosters, req.raceId, req.teamId)

\* the entries and the draw order a Generate answered with are those a fetch now finds
GenerateSnapshot ==
    Generated =>
        LET fetched == getStartListData(startlists, last.branch)
        IN /\ Range(last.entries) = fetched.entries
           /\ Meta(last.teamsOrder) = fetched.meta

\* the entries and the draw order a start-list Copy answers with are those a fetch of
\* the destination then finds
CopySnapshot ==
    \A raceId \in RaceIds, fromRaceId \in RaceIds :
        LET res == startlistCopy(startlists, raceId, fromRaceId)
            fetched == getStartListData(res.startlists, raceId)
        IN res.status = "ok" => res.entries = fetched.entries /\ res.meta = fetched.meta

\* the entries, issues, groups and team scores a submission answered with are those a
\* fetch now finds
ResultsSnapshot ==
    Submitted =>
        LET fetched == resultsGet(results, last.branch)
        IN /\ last.entries = fetched.entries
           /\ last.issues = fetched.issues
           /\ last.groups = fetched.groups
           /\ last.teamScores = fetched.teamScores

\* C31: every successful mutating request answers with the full resulting snapshot: the
\* roster of Add, Reclassify, Remove, Move and roster Copy is the roster the next fetch
\* for that (race, team) returns, and the entries of start-list Generate and Copy and of
\* a results submission are those the next fetch for that race returns, with the same
\* race id and the same points.
C31_FullSnapshot ==
    /\ RosterSnapshot
    /\ GenerateSnapshot
    /\ CopySnapshot
    /\ ResultsSnapshot

-----------------------------------------------------------------------------
\* routes/races.ts: DELETE /races/{raceId}

\* a cascade that stops after the rosters of one team
deleteRostersOneTeam(tbl, teamIds, raceId) ==
    LET one == CHOOSE t \in teamIds : TRUE
    IN {i \in tbl : ~(i.raceId = raceId /\ i.teamId = one)}

\* deleteRosters(raceId): for every team of the TEAMS table, every item of the
\* (race, team) partition
deleteRosters(tbl, teamIds, raceId) ==
    {i \in tbl : ~(i.raceId = raceId /\ i.teamId \in teamIds)}

\* deleteStartList(raceId): every item stored under the race, the bib-0 record included
deleteStartList(tbl, raceId) == {i \in tbl : i.raceId # raceId}

\* the DELETE handler: 404 for a race not on record; else the rosters, the start list
\* and the race record go, in this order
racesDelete(racesTbl, rosterTbl, startTbl, teamIds, raceId) ==
    IF ~ \E r \in racesTbl : r.raceId = raceId
    THEN [status |-> "NotFound", races |-> racesTbl, rosters |-> rosterTbl,
          startlists |-> startTbl]
    ELSE [status |-> "ok",
          races |-> {r \in racesTbl : r.raceId # raceId},
          rosters |-> deleteRosters(rosterTbl, teamIds, raceId),
          startlists |-> deleteStartList(startTbl, raceId)]

DeleteRace ==
    \E raceId \in RaceIds :
        LET res == racesDelete(races, rosters, startlists, SeedTeams, raceId)
        IN /\ steps > 0
           /\ steps' = steps - 1
           /\ races' = res.races
           /\ rosters' = res.rosters
           /\ startlists' = res.startlists
           /\ drawn' = IF res.status = "ok" THEN [drawn EXCEPT ![raceId] = <<>>]
                       ELSE drawn
           /\ last' = [op |-> "races_delete", status |-> res.status, branch |-> raceId]
           /\ UNCHANGED <<racers, results, calls>>

-----------------------------------------------------------------------------
\* SpecCascade: races with rosters and start lists, deleted

\* requests served in one behaviour of SpecCascade
MaxCascadeOps == 3

\* race1 with every racer on its team's roster, race2 with the roster of t1 copied
PreparedCascade == Replay(SeedRaces, PreparedStart, <<CopyReq("race2", "t1", "race1")>>)

InitCascade ==
    /\ races = SeedRaces
    /\ racers = StartRacers
    /\ rosters = PreparedCascade
    /\ startlists = {}
    /\ results = {}
    /\ last = NoRequest
    /\ drawn = NoDraw
    /\ calls = NoCalls
    /\ steps = MaxCascadeOps

NextCascade ==
    \/ Generate
    \/ CopyStartList
    \/ SetExcluded
    \/ PatchRace
    \/ DeleteRace

SpecCascade == InitCascade /\ [][NextCascade]_vars

\* nothing of the race is left in the three tables
RaceGone(racesTbl, rosterTbl, startTbl, raceId) ==
    /\ ~ \E r \in racesTbl : r.raceId = raceId
    /\ ~ \E e \in rosterTbl : e.raceId = raceId
    /\ ~ \E i \in startTbl : i.raceId = raceId

\* C32: deleting a race on record succeeds and leaves no roster entry of the race for
\* any team, no start-list item of the race (the bib-0 record included) and no race
\* record, and leaves everything of the other races as it was; deleting a race that is
\* not on record fails with NotFound and changes nothing.
C32_DeleteCascades ==
    /\ (last.op = "races_delete" /\ last.status = "ok")
           => RaceGone(races, rosters, startlists, last.branch)
    /\ \A raceId \in RaceIds :
           LET res == racesDelete(races, rosters, startlists, SeedTeams, raceId)
           IN IF raceId \in ExistingRaces
              THEN /\ res.status = "ok"
                   /\ RaceGone(res.races, res.rosters, res.startlists, raceId)
                   /\ {r \in res.races : r.raceId # raceId}
                          = {r \in races : r.raceId # raceId}
                   /\ {e \in res.rosters : e.raceId # raceId}
                          = {e \in rosters : e.raceId # raceId}
                   /\ {i \in res.startlists : i.raceId # raceId}
                          = {i \in startlists : i.raceId # raceId}
              ELSE /\ res.status = "NotFound"
                   /\ res.races = races /\ res.rosters = rosters
                   /\ res.startlists = startlists

\* a race was deleted and nothing of it is left, while the other race is on record
\* with the rosters of three teams, its bib-0 record and drawn entries, all of which a
\* deletion from here removes
C32_Witness ==
    /\ last.op = "races_delete" /\ last.status = "ok"
    /\ RaceGone(races, rosters, startlists, last.branch)
    /\ \E raceId \in ExistingRaces :
           /\ {e.teamId : e \in {x \in rosters : x.raceId = raceId}} = SeedTeams
           /\ \E i \in startlists : i.raceId = raceId /\ i.bib = 0
           /\ \E i \in startlists : i.raceId = raceId /\ i.bib > 0
           /\ racesDelete(races, rosters, startlists, SeedTeams, raceId).status = "ok"

-----------------------------------------------------------------------------
\* routes/roster.ts, one store command at a time: a handler reads the roster, decides,
\* and then sends its DeleteCommand and PutCommand one after the other

\* the commands a handler sends
Del(item) == [kind |-> "delete", item |-> item]
PutW(item) == [kind |-> "put", item |-> item]
CondPut(item) == [kind |-> "condput", item |-> item]

\* the shift loop: DeleteCommand and PutCommand for every entry placed after the gap
RECURSIVE ShiftWrites(_)
ShiftWrites(seq) ==
    IF seq = <<>> THEN <<>>
    ELSE LET racer == Head(seq)
         IN <<Del(racer), PutW([racer EXCEPT !.startOrder = SO(racer) - 1])>>
              \o ShiftWrites(Tail(seq))

\* a removal that sends no shift
removeWritesNoShift(roster, entry) == <<Del(entry)>>

\* DELETE: the entry goes, then the shift loop over its bucket
removeWrites(roster, entry) ==
    LET bucket == SortByStartOrder({r \in roster :
                      r.gender = entry.gender /\ r.class = entry.class})
    IN <<Del(entry)>>
         \o (IF entry.class # "DNS" THEN ShiftWrites(toShift(bucket, entry)) ELSE <<>>)

\* PATCH: as the removal, then the put of the entry under its new class
reclassifyWrites(roster, entry, normalizedNewClass) ==
    removeWrites(roster, entry)
      \o <<PutW(Item(entry.raceId, entry.teamId, entry.gender, normalizedNewClass,
                     entry.racerId,
                     nextStartOrder(roster, entry.gender, normalizedNewClass)))>>

\* POST move: the commands of the branch the handler took
moveWrites(roster, entry, direction, branch) ==
    LET varsity == ordered(roster, entry.gender, "Varsity")
        jrVarsity == ordered(roster, entry.gender, "Jr Varsity")
        va == findAlternate(roster, entry.gender)
        members == {r \in roster : r.gender = entry.gender /\ r.class = entry.class}
    IN CASE branch = "va_up_swap" ->
              LET varsityFifth == First({v \in varsity : SO(v) = CAP.Varsity})
              IN <<Del(entry), Del(varsityFifth),
                   PutW(Rekey(entry, "Varsity", CAP.Varsity)),
                   PutW(Rekey(varsityFifth, "Varsity Alternate", OrOne(entry.startOrder)))>>
         [] branch = "va_up_append" ->
              <<Del(entry), PutW(Rekey(entry, "Varsity", MaxOrder(varsity) + 1))>>
         [] branch = "va_down_alone" ->
              <<Del(entry), PutW(Rekey(entry, "Jr Varsity", 1))>>
         [] branch = "va_down_swap" ->
              LET topJv == First({j \in jrVarsity : SO(j) = 1})
              IN <<Del(entry), Del(topJv),
                   PutW(Rekey(entry, "Jr Varsity", 1)),
                   PutW(Rekey(topJv, "Varsity Alternate", OrOne(entry.startOrder)))>>
         [] branch = "jv_up_promote" ->
              <<Del(entry)>>
                \o ShiftWrites(toShift(SortByStartOrder(jrVarsity), entry))
                \o <<PutW(Rekey(entry, "Varsity Alternate", 1))>>
         [] branch = "jv_up_swap" ->
              LET v == First(va)
              IN <<Del(entry), Del(v),
                   PutW(Rekey(entry, "Varsity Alternate", OrOne(v.startOrder))),
                   PutW(Rekey(v, "Jr Varsity", OrOne(entry.startOrder)))>>
         [] branch = "v_down_swap" ->
              LET v == First(va)
                  n == Cardinality(varsity)
              IN <<Del(entry), Del(v),
                   PutW(Rekey(entry, "Varsity Alternate", OrOne(v.startOrder))),
                   PutW(Rekey(v, "Varsity",
                              IF entry.startOrder # Null THEN entry.startOrder
                              ELSE IF n # 0 THEN n ELSE 1))>>
         [] branch = "v_down_alone" ->
              <<Del(entry), PutW(Rekey(entry, "Varsity Alternate", 1))>>
         [] branch = "swapped" ->
              LET bucket == SortByStartOrder(members)
                  i == IndexOf(bucket, entry.racerId)
                  swapWith == bucket[IF direction = "up" THEN i - 1 ELSE i + 1]
              IN <<Del(entry), Del(swapWith),
                   PutW([entry EXCEPT !.startOrder = swapWith.startOrder]),
                   PutW([swapWith EXCEPT !.startOrder = entry.startOrder])>>
         [] OTHER -> <<>>

\* what a handler has decided once its reads are done: the status it would answer
\* with and the commands it goes on to send. The lock check, the roster read and
\* the cap count are those of rosterRouter on the tables as they are now; the Add
\* learns of an existing key only from its conditional put.
Plan(racesTbl, tbl, req) ==
    LET res == rosterRouter(racesTbl, tbl, req)
        roster == getRoster(tbl, req.raceId, req.teamId)
        found == findEntry(roster, req.racerId)
    IN CASE req.op = "add" /\ res.status \in {"ok", "DuplicateEntry"} ->
              LET cls == resolveClass(req.rBaseClass, req.desiredClass)
              IN [status |-> "ok",
                  writes |-> <<CondPut(Item(req.raceId, req.teamId, req.rGender, cls,
                                            req.racerId,
                                            nextStartOrder(roster, req.rGender, cls)))>>]
         [] req.op = "delete" /\ res.branch = "removed" ->
              [status |-> "ok", writes |-> removeWrites(roster, First(found))]
         [] req.op = "patch" /\ res.branch = "reclassified" ->
              [status |-> "ok",
               writes |-> reclassifyWrites(roster, First(found),
                                           normalizeClass(req.newClass))]
         [] req.op = "move" /\ res.status = "ok" ->
              [status |-> "ok",
               writes |-> moveWrites(roster, First(found), req.direction, res.branch)]
         [] OTHER -> [status |-> res.status, writes |-> <<>>]

\* one command on the table; a conditional put on an existing key changes nothing
Apply(tbl, w) ==
    CASE w.kind = "delete" -> Delete(tbl, Key(w.item))
      [] w.kind = "put" -> Put(tbl, w.item)
      [] w.kind = "condput" -> IF conditionFails(tbl, w.item) THEN tbl
                               ELSE Put(tbl, w.item)

RECURSIVE ApplyAll(_, _)
ApplyAll(tbl, writes) ==
    IF writes = <<>> THEN tbl ELSE ApplyAll(Apply(tbl, Head(writes)), Tail(writes))

-----------------------------------------------------------------------------
\* SpecSteps: two clients, their requests interleaved command by command

\* requests begun and race updates served in one behaviour of SpecSteps
MaxStepOps == 2

\* men of t1: three Varsity racers and two Jr Varsity racers on the roster of race1,
\* and two racers of the directory, alternates by their base class, not on it yet
StepRostered ==
    {Racer(1, "t1", "Male", "Varsity"), Racer(2, "t1", "Male", "Varsity"),
     Racer(3, "t1", "Male", "Varsity"),
     Racer(7, "t1", "Male", "Jr Varsity"), Racer(8, "t1", "Male", "Jr Varsity")}

StepRacers ==
    StepRostered \cup {Racer(5, "t1", "Male", "Varsity Alternate"),
                       Racer(6, "t1", "Male", "Varsity Alternate")}

PreparedSteps == Replay(SeedRaces, {}, AddRequests("race1", StepRostered))

\* the requests a client sends for race1: an Add in the base class, a Remove, a
\* Reclassify, a Move
StepRequests ==
    UNION {{AddReq("race1", rc.teamId, rc.racerId, rc.gender, rc.class, None),
            DeleteReq("race1", rc.teamId, rc.racerId)}
           \cup {PatchReq("race1", rc.teamId, rc.racerId, newClass) :
                    newClass \in {"Jr Varsity", "DNS"}}
           \cup {MoveReq("race1", rc.teamId, rc.racerId, direction) :
                    direction \in Directions}
           : rc \in racers}

\* a request whose commands are being sent: those still to send, the number sent,
\* whether it is the retry of an interrupted request and how many commands that one
\* had sent, and the table the first attempt would have left if run alone
Running(req, todo, retry, sent, want) ==
    [op |-> "run", req |-> req, todo |-> todo, wrote |-> 0, retry |-> retry,
     sent |-> sent, want |-> want]

\* a request that was answered
Done(req, status, retry, sent, want) ==
    [op |-> "done", req |-> req, status |-> status, retry |-> retry, sent |-> sent,
     want |-> want]

\* the call after its reads: answered at once when there is nothing to send
Started(req, plan, retry, sent, want) ==
    IF plan.writes = <<>> THEN Done(req, plan.status, retry, sent, want)
    ELSE Running(req, plan.writes, retry, sent, want)

\* the call after one more command: answered after the last one, or after a
\* conditional put that was refused
Advance(c, refused) ==
    IF refused THEN Done(c.req, "DuplicateEntry", c.retry, c.sent, c.want)
    ELSE IF Len(c.todo) = 1 THEN Done(c.req, "ok", c.retry, c.sent, c.want)
    ELSE [c EXCEPT !.todo = Tail(c.todo), !.wrote = c.wrote + 1]

InitSteps ==
    /\ races = SeedRaces
    /\ racers = StepRacers
    /\ rosters = PreparedSteps
    /\ startlists = {}
    /\ results = {}
    /\ last = NoRequest
    /\ drawn = NoDraw
    /\ calls = NoCalls
    /\ steps = MaxStepOps

\* a client sends a request: the handler checks the lock, reads the roster and decides
\* (the clients are interchangeable: a1 is the one whose first request comes first)
Begin ==
    \E a \in Actors, req \in StepRequests :
        /\ steps > 0
        /\ calls[a].op \in {"none", "done"}
        /\ a = "a2" => calls["a1"].op # "none"
        /\ steps' = steps - 1
        /\ calls' = [calls EXCEPT ![a] =
                        Started(req, Plan(races, rosters, req), FALSE, 0,
                                rosterRouter(races, rosters, req).rosters)]
        /\ last' = [op |-> "begin", status |-> calls'[a].op, branch |-> a]
        /\ UNCHANGED <<races, racers, rosters, startlists, results, drawn>>

\* the handler sends its next command
Write ==
    \E a \in Actors :
        /\ calls[a].op = "run"
        /\ LET w == Head(calls[a].todo)
               refused == w.kind = "condput" /\ conditionFails(rosters, w.item)
           IN /\ rosters' = Apply(rosters, w)
              /\ calls' = [calls EXCEPT ![a] = Advance(calls[a], refused)]
              /\ last' = [op |-> "write", status |-> IF refused THEN "refused" ELSE w.kind,
                          branch |-> a]
        /\ UNCHANGED <<races, racers, startlists, results, drawn, steps>>

\* the handler stops between two commands and sends no more
Crash ==
    \E a \in Actors :
        /\ calls[a].op = "run"
        /\ ~calls[a].retry
        /\ calls' = [calls EXCEPT ![a] =
                        [op |-> "crashed", req |-> calls[a].req, wrote |-> calls[a].wrote,
                         want |-> calls[a].want]]
        /\ last' = [op |-> "crash", status |-> "none", branch |-> a]
        /\ UNCHANGED <<races, racers, rosters, startlists, results, drawn, steps>>

\* the client sends the interrupted request again
Retry ==
    \E a \in Actors :
        /\ calls[a].op = "crashed"
        /\ calls' = [calls EXCEPT ![a] =
                        Started(calls[a].req, Plan(races, rosters, calls[a].req), TRUE,
                                calls[a].wrote, calls[a].want)]
        /\ last' = [op |-> "retry", status |-> calls'[a].op, branch |-> a]
        /\ UNCHANGED <<races, racers, rosters, startlists, results, drawn, steps>>

NextSteps ==
    \/ Begin
    \/ Write
    \/ Crash
    \/ Retry
    \/ PatchRace

SpecSteps == InitSteps /\ [][NextSteps]_vars

StepsTypeOK == \A a \in Actors : calls[a].op \in {"none", "run", "crashed", "done"}

-----------------------------------------------------------------------------
\* Requests that stop half-way

\* every bucket of a racing class of the table holds the startOrder values 1..N, each
\* once
Gapless(tbl) ==
    \A raceId \in RaceIds, teamId \in TeamIds, gender \in Genders,
       cls \in RacerClass \ {"DNS"} :
        LET b == BucketIn(tbl, raceId, teamId, gender, cls)
        IN /\ {e.startOrder : e \in b} = 1..Cardinality(b)
           /\ \A e1, e2 \in b : e1.startOrder = e2.startOrder => e1 = e2

\* the racers of the prepared roster with no entry in the table
Missing(tbl) == {e.racerId : e \in PreparedSteps} \ {e.racerId : e \in tbl}

\* the only request sent so far is the one of client a, and no race was updated
Alone(a) ==
    /\ steps = MaxStepOps - 1
    /\ calls[a] # Idle
    /\ \A b \in Actors \ {a} : calls[b] = Idle

\* C33: a Remove, Reclassify or Move that sends all its commands leaves every bucket
\* with startOrder 1..N and every racer it did not remove on the roster; a gap, a
\* shared startOrder or a racer without entry is what a request leaves that stopped
\* between two of its commands.
C33_WholeOrBroken ==
    \A a \in Actors :
        (Alone(a) /\ calls[a].op = "done" /\ ~calls[a].retry)
            => /\ rosters = calls[a].want
               /\ Gapless(rosters)
               /\ Missing(rosters) \subseteq
                      (IF calls[a].req.op = "delete" THEN {calls[a].req.racerId} ELSE {})

\* a Remove stopped after at least one command: a bucket has a gap and a racer the
\* request did not name has no entry
C33_Witness ==
    \E a \in Actors :
        /\ Alone(a)
        /\ calls[a].op = "crashed" /\ calls[a].wrote >= 1
        /\ calls[a].req.op = "delete"
        /\ ~Gapless(rosters)
        /\ Missing(rosters) \ {calls[a].req.racerId} # {}

\* a Move stopped after its two deletes: neither racer has an entry
MoveStopped ==
    \E a \in Actors :
        /\ Alone(a)
        /\ calls[a].op = "crashed" /\ calls[a].req.op = "move"
        /\ Cardinality(Missing(rosters)) = 2

\* a Reclassify stopped before its last put: the racer has no entry
ReclassifyStopped ==
    \E a \in Actors :
        /\ Alone(a)
        /\ calls[a].op = "crashed" /\ calls[a].req.op = "patch"
        /\ calls[a].req.racerId \in Missing(rosters)
        /\ Gapless(rosters)

-----------------------------------------------------------------------------
\* An interrupted request sent again

\* the bucket a Remove or Reclassify of the prepared roster compacts: the one its racer
\* stands in
Affected(tbl, req) ==
    LET entry == First(findEntry(getRoster(PreparedSteps, req.raceId, req.teamId),
                                 req.racerId))
    IN BucketIn(tbl, req.raceId, req.teamId, entry.gender, entry.class)

\* client a sent a Remove or Reclassify of a rostered racer, the handler stopped after
\* one command or more, and the same request, sent again, was answered
Retried(a) ==
    /\ Alone(a)
    /\ calls[a].op = "done" /\ calls[a].retry /\ calls[a].sent >= 1
    /\ calls[a].req.op \in {"delete", "patch"}

\* C34: when a Remove or Reclassify is interrupted after its first command and the same
\* request is sent again and answered, the bucket it compacts holds startOrder 1..N,
\* with the racers in the order an uninterrupted run leaves them in.
C34_RetryCompacts ==
    \A a \in Actors :
        Retried(a) =>
            LET b == Affected(rosters, calls[a].req)
            IN /\ {e.startOrder : e \in b} = 1..Cardinality(b)
               /\ b = Affected(calls[a].want, calls[a].req)

-----------------------------------------------------------------------------
\* The lock and the commands of a request in progress

\* client a has a request read and decided in this step (sent, or sent again)
Decides(a) == calls[a].op \in {"none", "done", "crashed"} /\ calls'[a] # calls[a]

\* client a's handler sends a command in this step
Sends(a) == calls[a].op = "run" /\ calls'[a] # calls[a] /\ calls'[a].op # "crashed"

\* C35: the lock is looked at once, when the request comes in: a request that comes in
\* while the race is locked is refused with RaceLocked and sends nothing, and every
\* command of a request that came in before is applied to the table whether the race
\* is locked by then or not.
C35_LockCheckedOnce ==
    [][\A a \in Actors :
          /\ (Decides(a) /\ Locked(calls'[a].req.raceId))
                => (calls'[a].op = "done" /\ calls'[a].status = "RaceLocked"
                    /\ rosters' = rosters)
          /\ Sends(a) => rosters' = Apply(rosters, Head(calls[a].todo))]_vars

\* race1 is locked and the last step was a DeleteCommand of a request in progress that
\* took an entry of race1 away
C35_Witness ==
    /\ Locked("race1")
    /\ last.op = "write" /\ last.status = "delete"
    /\ calls[last.branch].op = "run"
    /\ calls[last.branch].req.raceId = "race1"
    /\ Missing(rosters) # {}

\* race1 is locked and the last step was a PutCommand of a request on race1
PutWhileLocked ==
    /\ Locked("race1")
    /\ last.op = "write" /\ last.status = "put"
    /\ calls[last.branch].req.raceId = "race1"

-----------------------------------------------------------------------------
\* Two Adds at the same time

\* client a's handler sends its conditional put in this step
SendsAdd(a) == Sends(a) /\ Head(calls[a].todo).kind = "condput"

\* C36: the conditional put of an Add is refused exactly when an item with the same
\* key (race, team, gender, class, racer) is stored, and is applied otherwise, whatever
\* startOrder other entries of the bucket hold and however many there are.
C36_PutRefusesSameKeyOnly ==
    [][\A a \in Actors :
          SendsAdd(a) =>
              LET item == Head(calls[a].todo).item
              IN IF \E i \in rosters : Key(i) = Key(item)
                 THEN calls'[a].status = "DuplicateEntry" /\ rosters' = rosters
                 ELSE calls'[a].status = "ok" /\ rosters' = rosters \cup {item}]_vars

\* both clients added a racer, both were answered ok, and the two racers are both
\* Varsity Alternate of the same race, team and gender with the same startOrder
C36_Witness ==
    /\ \A a \in Actors : /\ calls[a].op = "done" /\ calls[a].status = "ok"
                         /\ calls[a].req.op = "add"
    /\ calls["a1"].req.racerId # calls["a2"].req.racerId
    /\ \E e1, e2 \in rosters :
           /\ e1.racerId = calls["a1"].req.racerId
           /\ e2.racerId = calls["a2"].req.racerId
           /\ Key(e1) # Key(e2)
           /\ e1.class = "Varsity Alternate" /\ e2.class = "Varsity Alternate"
           /\ e1.raceId = e2.raceId /\ e1.teamId = e2.teamId /\ e1.gender = e2.gender
           /\ e1.startOrder = e2.startOrder
    /\ Cardinality(BucketIn(rosters, "race1", "t1", "Male", "Varsity Alternate"))
           > CAP.VarsityAlternate

====
